---- MODULE Spec2Model ----
(***************************************************************************)
(* Control-and-telemetry core of the SenXor ESP32-S3 thermal camera        *)
(* firmware: the ASCII packet parser and command dispatch (cmdParser.c),   *)
(* the command server (cmdServerTask.c), the frame server                  *)
(* (tcpServerTask.c), the capture arbiter loop (senxorTask.c) and the      *)
(* broadcast connection count (Drv_CombustionBle).                         *)
(***************************************************************************)
EXTENDS Integers, Sequences, FiniteSets, TLC

VARIABLES
  \* --- sensor and register map ---
  regB1,              \* capture-control register 0xB1 (0x00 stop, 0x03 start)
  mQuadrantData,      \* quadrant registers of senxorTask.c
  nvs,                \* persisted bytes written by NVS_WriteU8
  \* --- command server (cmdServerTask.c) ---
  cmdIsClientConnected, \* isClientConnected of cmdServerTask.c
  pollFreqHz,         \* poll frequency signal
  cmdLink,            \* state of the command-port connection
  cmdWire,            \* bytes sent by the client and not yet read
  \* --- frame server (tcpServerTask.c) ---
  tcpIsClientConnected, \* isClientConnected of tcpServerTask.c
  frameLink,          \* state of the connection behind connect_sock
  pushPc,             \* position of tcpServerTask
  recvPc,             \* position of tcpServerRecvTask
  frameAck,           \* ack built by tcpServerGet and not yet sent
  tcpServerSemaphore, \* holder of the socket mutex ("none" when free)
  senxorFrameQueue,   \* number of frame pointers queued
  \* --- capture arbiter (senxorTask.c) ---
  arbPc,              \* "sample" (top of the loop) or "act" (signals read)
  sampled,            \* the four signals read at the top of the loop (locals,
                      \* dead once the pass is over)
  pollCaptureStarted,
  pollAge,            \* ticks from lastPollTime to the next read of the tick count
  \* --- broadcast transport (Drv_CombustionBle) ---
  clients,            \* mState.clients: conn_id per slot, 0 - 1 when inactive
  connected_count,    \* mState.connected_count
  notifications_enabled, \* mState.clients[i].notifications_enabled per slot
  \* --- history (observation only) ---
  ev,                 \* what the last step did
  b1Write,            \* task and cause of the last write of 0xB1
  pollStarts,         \* sensor starts issued by the arbiter in the current Polling run
  clientEvents,       \* number of client events so far
  inflight            \* the request last sent on the command wire and its dispatches

sensorVars == << regB1, mQuadrantData, nvs >>
cmdVars == << cmdIsClientConnected, pollFreqHz, cmdLink, cmdWire >>
tcpVars == << tcpIsClientConnected, frameLink, pushPc, recvPc,
              frameAck, tcpServerSemaphore, senxorFrameQueue >>
arbVars == << arbPc, sampled, pollCaptureStarted, pollAge >>
bleVars == << clients, connected_count, notifications_enabled >>
histVars == << ev, b1Write, pollStarts, inflight, clientEvents >>
vars == << sensorVars, cmdVars, tcpVars, arbVars, bleVars, histVars >>

(***************************************************************************)
(* Bytes.  A byte is a one-character string; NUL is the zero byte that     *)
(* memset/bzero leave in the buffers.  Printable lists ASCII 32..90 in     *)
(* order, so the code of Printable[i] is 31 + i.                           *)
(***************************************************************************)
NUL == "NUL"

Printable ==
  << " ", "!", "\"", "#", "$", "%", "&", "'", "(", ")", "*", "+", ",", "-",
     ".", "/", "0", "1", "2", "3", "4", "5", "6", "7", "8", "9", ":", ";",
     "<", "=", ">", "?", "@", "A", "B", "C", "D", "E", "F", "G", "H", "I",
     "J", "K", "L", "M", "N", "O", "P", "Q", "R", "S", "T", "U", "V", "W",
     "X", "Y", "Z" >>

\* Byte value of each character: its place in the table, from 32 on.
AsciiOf ==
  [c \in { Printable[i] : i \in 1..Len(Printable) } \cup {NUL} |->
     IF c = NUL THEN 0
     ELSE 31 + (CHOOSE i \in 1..Len(Printable) : Printable[i] = c)]

Ascii(c) == AsciiOf[c]

HexChars ==
  << "0", "1", "2", "3", "4", "5", "6", "7", "8", "9",
     "A", "B", "C", "D", "E", "F" >>

IsHexChar(c) == \E i \in 1..Len(HexChars) : HexChars[i] = c

Pow16(n) == IF n = 0 THEN 1 ELSE IF n = 1 THEN 16 ELSE IF n = 2 THEN 256
            ELSE IF n = 3 THEN 4096 ELSE 65536

\* The C string held in a zero-initialised array: the bytes before the first NUL.
RECURSIVE CStr(_)
CStr(a) ==
  IF a = << >> \/ Head(a) = NUL THEN << >> ELSE << Head(a) >> \o CStr(Tail(a))

\* Sum of the byte values of a sequence.
RECURSIVE SumBytes(_)
SumBytes(s) == IF s = << >> THEN 0 ELSE Ascii(Head(s)) + SumBytes(Tail(s))

LENGTH_PARSE_ERROR == 0 - 1

getHexValue(c) ==
  IF IsHexChar(c) THEN (CHOOSE i \in 1..Len(HexChars) : HexChars[i] = c) - 1
  ELSE LENGTH_PARSE_ERROR

\* toHex(pStr): every character must be an upper-case hex digit; the empty
\* string yields 0.
RECURSIVE toHexFrom(_, _)
toHexFrom(s, acc) ==
  IF s = << >> THEN acc
  ELSE IF getHexValue(Head(s)) = LENGTH_PARSE_ERROR THEN LENGTH_PARSE_ERROR
  ELSE toHexFrom(Tail(s), acc + getHexValue(Head(s)) * Pow16(Len(s) - 1))

toHex(pStr) == toHexFrom(pStr, 0)

\* "%02X" and "%04X".
Hex2(n) == << HexChars[((n \div 16) % 16) + 1], HexChars[(n % 16) + 1] >>

Hex4(n) == Hex2((n \div 256) % 256) \o Hex2(n % 256)

(***************************************************************************)
(* strtoul(s, 0, 16) on a C string: leading blanks are skipped, a sign and *)
(* a 0X prefix are accepted, then the longest run of hex digits is         *)
(* converted; no digits give 0.  A negated value wraps modulo 2^32.        *)
(***************************************************************************)
\* A uint32_t is held as its residue in -2^31 .. 2^31 - 1: a negative number
\* n stands for 2^32 + n.  U32Below8 and U32Above7 compare it as unsigned.
U32Below8(n) == 0 <= n /\ n < 8
U32Above7(n) == n > 7 \/ n < 0
U32_MAX == 0 - 1

RECURSIVE SkipBlanks(_)
SkipBlanks(s) ==
  IF s # << >> /\ Head(s) = " " THEN SkipBlanks(Tail(s)) ELSE s

RECURSIVE HexRun(_, _)
HexRun(s, acc) ==
  IF s # << >> /\ IsHexChar(Head(s))
  THEN HexRun(Tail(s), acc * 16 + getHexValue(Head(s)))
  ELSE acc

strtoul16(str) ==
  LET s0 == SkipBlanks(CStr(str))
      neg == s0 # << >> /\ Head(s0) = "-"
      s1 == IF s0 # << >> /\ Head(s0) \in {"-", "+"} THEN Tail(s0) ELSE s0
      s2 == IF Len(s1) >= 3 /\ s1[1] = "0" /\ s1[2] = "X" /\ IsHexChar(s1[3])
            THEN Tail(Tail(s1)) ELSE s1
      v == HexRun(s2, 0)
  IN IF neg THEN 0 - v ELSE v

(***************************************************************************)
(* cmdParser.  A cmdPhaser object holds the parser state and the four      *)
(* zero-initialised field buffers.  mData is kept as the bytes written so  *)
(* far (writes are consecutive from index 0); unwritten bytes read as NUL. *)
(***************************************************************************)
CP_CMD_FIELD_LEN == 5
CP_DLEN_FIELD_LEN == 5
CP_CRC_FIELD_LEN == 5
CP_DATA_FIELD_LEN == 512

Zeroes(n) == [i \in 1..n |-> NUL]

cmdParser_Init ==
  [ mCmdParserState |-> "START_CHAR",
    mCmdLen |-> Zeroes(CP_DLEN_FIELD_LEN),
    mCmd    |-> Zeroes(CP_CMD_FIELD_LEN),
    mData   |-> << >>,
    mCRC    |-> Zeroes(CP_CRC_FIELD_LEN) ]

\* mData[i] of the C array (0-based).
DataAt(ph, i) == IF i + 1 <= Len(ph.mData) THEN ph.mData[i + 1] ELSE NUL

\* The CRC comparison of the parser: the literal XXXX skips verification,
\* otherwise the running sum must equal the transmitted value.
CrcAccepts(mCRC, tInputChksum) ==
  \/ /\ mCRC[1] = "X" /\ mCRC[2] = "X" /\ mCRC[3] = "X" /\ mCRC[4] = "X"
  \/ tInputChksum = strtoul16(mCRC)

\* One iteration of the for loop of cmdParser_PharseCmd on input byte b.
\* s carries the parser object (ph), the locals tCmdPtr, tInputChksum and
\* tCmdLen, and whether the function has returned (done) and with what (ret).
PharseByte(s, b) ==
  LET ph == s.ph IN
  CASE ph.mCmdParserState = "START_CHAR" ->
         IF b = "#"
         THEN [s EXCEPT !.ph.mCmdParserState = "LEN"]
         ELSE s
    [] ph.mCmdParserState = "LEN" ->
         LET len1 == [ph.mCmdLen EXCEPT ![s.tCmdPtr + 1] = b]
             ptr1 == s.tCmdPtr + 1
             sum1 == s.tInputChksum + Ascii(b)
         IN IF ptr1 = CP_CMD_FIELD_LEN - 1
            THEN LET tCmdLen == strtoul16(len1)
                     toData == U32Above7(tCmdLen)
                     reject == U32Below8(tCmdLen) \/ tCmdLen = U32_MAX
                 IN [s EXCEPT !.ph.mCmdLen = len1,
                              !.tInputChksum = sum1,
                              !.tCmdLen = tCmdLen,
                              !.tCmdPtr = IF toData \/ reject THEN 0 ELSE ptr1,
                              !.ph.mCmdParserState =
                                 IF reject THEN "START_CHAR"
                                 ELSE IF toData THEN "DATA" ELSE "LEN"]
            ELSE [s EXCEPT !.ph.mCmdLen = len1,
                           !.tInputChksum = sum1,
                           !.tCmdPtr = ptr1]
    [] ph.mCmdParserState = "DATA" ->
         LET sum1 == s.tInputChksum + Ascii(b)
             inCmd == s.tCmdPtr < CP_CMD_FIELD_LEN - 1
             cmd1 == IF inCmd THEN [ph.mCmd EXCEPT ![s.tCmdPtr + 1] = b]
                     ELSE ph.mCmd
             data1 == IF inCmd THEN ph.mData ELSE Append(ph.mData, b)
             ptr1 == s.tCmdPtr + 1
             toCrc == \/ ptr1 = s.tCmdLen - 4
                      \/ ptr1 = CP_CMD_FIELD_LEN + CP_DATA_FIELD_LEN
         IN [s EXCEPT !.ph.mCmd = cmd1,
                      !.ph.mData = data1,
                      !.tInputChksum = sum1,
                      !.tCmdPtr = IF toCrc THEN 0 ELSE ptr1,
                      !.ph.mCmdParserState = IF toCrc THEN "CRC" ELSE "DATA"]
    [] ph.mCmdParserState = "CRC" ->
         LET crc1 == [ph.mCRC EXCEPT ![s.tCmdPtr + 1] = b]
             ptr1 == s.tCmdPtr + 1
         IN IF ptr1 = CP_CRC_FIELD_LEN - 1
            THEN [s EXCEPT !.ph.mCRC = crc1,
                           !.tCmdPtr = 0,
                           !.done = TRUE,
                           !.ret = IF CrcAccepts(crc1, s.tInputChksum)
                                   THEN 0 ELSE 0 - 1]
            ELSE [s EXCEPT !.ph.mCRC = crc1, !.tCmdPtr = ptr1]

\* The for loop over the input bytes lo..hi; it returns as soon as the CRC
\* field is complete, and consumed is the number of bytes it went through.
\* The range is folded by halves, which keeps the evaluation shallow on a
\* full-length input.  (The singleton sets bind each parser state to its
\* value.)
RECURSIVE PharseRange(_, _, _, _)
PharseRange(s, pInput, lo, hi) ==
  IF s.done \/ lo > hi THEN s
  ELSE IF lo = hi
  THEN CHOOSE r \in { [n EXCEPT !.consumed = lo] :
                        n \in { PharseByte(s, pInput[lo]) } } : TRUE
  ELSE CHOOSE r \in { PharseRange(m, pInput, (lo + hi) \div 2 + 1, hi) :
                        m \in { PharseRange(s, pInput, lo,
                                            (lo + hi) \div 2) } } : TRUE

PharseLoop(s, pInput, i) == PharseRange(s, pInput, i, Len(pInput))

\* cmdParser_PharseCmd(pCmdPhaser, pInput, pInputSize): the input is capped
\* at the sum of the field lengths; the result carries the parser object,
\* the return value and the number of input bytes the loop went through.
cmdParser_PharseCmd(pCmdPhaser, pInput) ==
  LET cap == CP_CMD_FIELD_LEN + CP_DLEN_FIELD_LEN + CP_DATA_FIELD_LEN
               + CP_CRC_FIELD_LEN
      inp == IF Len(pInput) > cap THEN SubSeq(pInput, 1, cap) ELSE pInput
  IN PharseLoop([ph |-> pCmdPhaser, tCmdPtr |-> 0, tInputChksum |-> 0,
                 tCmdLen |-> 0, done |-> FALSE, ret |-> 0, consumed |-> 0],
                inp, 1)

(***************************************************************************)
(* Register addresses.                                                     *)
(***************************************************************************)
REG_B1 == 177
REG_XSPLIT == 192
REG_YSPLIT == 193
REG_DBURNERT == 213
POLL_MAX_FREQ_HZ == 25

isQuadrantRegister(addr) == addr >= REG_XSPLIT /\ addr <= REG_DBURNERT

\* Acces_Read_Reg of the sensor library: only 0xB1 is modelled, every other
\* sensor register reads 0.
Acces_Read_Reg(addr) == IF addr = REG_B1 THEN regB1 ELSE 0

\* ApplicationReadVersion of the sensor library (firmware version bytes).
ApplicationReadVersion(addr) == 0

\* getCRC(p, n) of the sensor library: additive checksum of n bytes.
getCRC(bytes) == SumBytes(bytes) % 65536

CMD_WREG == << "W", "R", "E", "G" >>
CMD_RREG == << "R", "R", "E", "G" >>
CMD_RRSE == << "R", "R", "S", "E" >>
CMD_POLL == << "P", "O", "L", "L" >>

Marker == << " ", " ", " ", "#" >>

(***************************************************************************)
(* Quadrant registers (senxorTask.c).                                      *)
(***************************************************************************)
SENXOR_FRAME_WIDTH == 80
SENXOR_FRAME_HEIGHT == 62
DEFAULT_XSPLIT == 40
DEFAULT_YSPLIT == 31
REG_DEVID0 == 224
REG_DEVID5 == 229

\* Field of mQuadrantData behind each address 0xC0..0xD5, in address order.
QuadrantField ==
  << "Xsplit", "Ysplit", "Amax", "Acenter", "Bmax", "Bcenter", "Cmax",
     "Ccenter", "Dmax", "Dcenter", "Aburnerx", "Aburnery", "Aburnert",
     "Bburnerx", "Bburnery", "Bburnert", "Cburnerx", "Cburnery", "Cburnert",
     "Dburnerx", "Dburnery", "Dburnert" >>

\* Keys of the persistent store.
NvsKeys ==
  { "xsplit", "ysplit", "aburnerx", "aburnery", "bburnerx", "bburnery",
    "cburnerx", "cburnery", "dburnerx", "dburnery" }

NvsAbsent == 0 - 1

\* Variant of NVS_ReadU8: the stored value is never found.
NVS_ReadU8NotFound(store, key, def) == def

\* NVS_ReadU8(key, default).
NVS_ReadU8(store, key, def) ==
  IF store[key] = NvsAbsent THEN def ELSE store[key]

\* BT MAC address read by esp_read_mac (an example identity).
mDeviceId == << 36, 88, 124, 1, 2, 3 >>

\* quadrant_Init: load the split values and burner coordinates from the
\* store; a split value out of range falls back to its default.
quadrant_Init(store) ==
  LET xs == NVS_ReadU8(store, "xsplit", DEFAULT_XSPLIT)
      ys == NVS_ReadU8(store, "ysplit", DEFAULT_YSPLIT)
      defAx == DEFAULT_XSPLIT \div 2
      defAy == DEFAULT_YSPLIT \div 2
      defBx == DEFAULT_XSPLIT + (SENXOR_FRAME_WIDTH - DEFAULT_XSPLIT) \div 2
      defCy == DEFAULT_YSPLIT + (SENXOR_FRAME_HEIGHT - DEFAULT_YSPLIT) \div 2
  IN [ Xsplit |-> IF xs > SENXOR_FRAME_WIDTH THEN DEFAULT_XSPLIT ELSE xs,
       Ysplit |-> IF ys > SENXOR_FRAME_HEIGHT THEN DEFAULT_YSPLIT ELSE ys,
       Amax |-> 0, Acenter |-> 0, Bmax |-> 0, Bcenter |-> 0,
       Cmax |-> 0, Ccenter |-> 0, Dmax |-> 0, Dcenter |-> 0,
       Aburnerx |-> NVS_ReadU8(store, "aburnerx", defAx),
       Aburnery |-> NVS_ReadU8(store, "aburnery", defAy),
       Bburnerx |-> NVS_ReadU8(store, "bburnerx", defBx),
       Bburnery |-> NVS_ReadU8(store, "bburnery", defAy),
       Cburnerx |-> NVS_ReadU8(store, "cburnerx", defAx),
       Cburnery |-> NVS_ReadU8(store, "cburnery", defCy),
       Dburnerx |-> NVS_ReadU8(store, "dburnerx", defBx),
       Dburnery |-> NVS_ReadU8(store, "dburnery", defCy),
       Aburnert |-> 0, Bburnert |-> 0, Cburnert |-> 0, Dburnert |-> 0 ]

\* quadrant_ReadRegister(regAddr).
quadrant_ReadRegister(regAddr) ==
  IF isQuadrantRegister(regAddr)
  THEN mQuadrantData[QuadrantField[regAddr - REG_XSPLIT + 1]]
  ELSE IF regAddr >= REG_DEVID0 /\ regAddr <= REG_DEVID5
  THEN mDeviceId[regAddr - REG_DEVID0 + 1]
  ELSE 0

\* Variant of ClampHigh: only the upper limit is applied.
ClampHighUpperOnly(value, split, dim) ==
  IF value >= dim THEN dim - 1 ELSE value

\* The clamps of quadrant_WriteRegister.
ClampLow(value, split) ==
  IF value >= split THEN (IF split > 0 THEN split - 1 ELSE 0) ELSE value

ClampHigh(value, split, dim) ==
  LET v1 == IF value < split THEN split ELSE value
  IN IF v1 >= dim THEN dim - 1 ELSE v1

\* Variant of SplitAccepted: every byte is taken as a split value.
SplitAcceptedAlways(value, dim) == TRUE

\* if (value <= SENXOR_FRAME_WIDTH), if (value <= SENXOR_FRAME_HEIGHT).
SplitAccepted(value, dim) == value <= dim

\* Variant of IgnoredWrite: the value is stored in the addressed register.
IgnoredWriteStored(q, store, field, value) ==
  [q |-> IF field \in DOMAIN q THEN [q EXCEPT ![field] = value] ELSE q,
   nvs |-> store]

\* default: read-only or unknown register, no action.
IgnoredWrite(q, store, field, value) == [q |-> q, nvs |-> store]

\* quadrant_WriteRegister(regAddr, value): the pair of the new mQuadrantData
\* and the new store.  Split values above the frame dimension and read-only
\* addresses leave both unchanged.
quadrant_WriteRegister(q, store, regAddr, value) ==
  LET xsplit == q.Xsplit
      ysplit == q.Ysplit
      field == IF isQuadrantRegister(regAddr)
               THEN QuadrantField[regAddr - REG_XSPLIT + 1] ELSE "none"
      put(f, key, v) == [q |-> [q EXCEPT ![f] = v],
                         nvs |-> [store EXCEPT ![key] = v]]
      same == [q |-> q, nvs |-> store]
  IN CASE field = "Xsplit" ->
            IF SplitAccepted(value, SENXOR_FRAME_WIDTH)
            THEN put("Xsplit", "xsplit", value) ELSE same
       [] field = "Ysplit" ->
            IF SplitAccepted(value, SENXOR_FRAME_HEIGHT)
            THEN put("Ysplit", "ysplit", value) ELSE same
       [] field = "Aburnerx" ->
            put("Aburnerx", "aburnerx", ClampLow(value, xsplit))
       [] field = "Aburnery" ->
            put("Aburnery", "aburnery", ClampLow(value, ysplit))
       [] field = "Bburnerx" ->
            put("Bburnerx", "bburnerx",
                ClampHigh(value, xsplit, SENXOR_FRAME_WIDTH))
       [] field = "Bburnery" ->
            put("Bburnery", "bburnery", ClampLow(value, ysplit))
       [] field = "Cburnerx" ->
            put("Cburnerx", "cburnerx", ClampLow(value, xsplit))
       [] field = "Cburnery" ->
            put("Cburnery", "cburnery",
                ClampHigh(value, ysplit, SENXOR_FRAME_HEIGHT))
       [] field = "Dburnerx" ->
            put("Dburnerx", "dburnerx",
                ClampHigh(value, xsplit, SENXOR_FRAME_WIDTH))
       [] field = "Dburnery" ->
            put("Dburnery", "dburnery",
                ClampHigh(value, ysplit, SENXOR_FRAME_HEIGHT))
       [] OTHER -> IgnoredWrite(q, store, field, value)

(***************************************************************************)
(* cmdParser_CommitCmd.  The result is a record:                           *)
(*   size    - the returned length (uint8_t),                              *)
(*   ack     - the first `size` bytes of pAckBuff after the call,          *)
(*   written - the number of leading bytes of pAckBuff the call stores to, *)
(*   op      - the side effect: a register write or a poll-frequency set.  *)
(***************************************************************************)
NoOp == [kind |-> "none", addr |-> 0, val |-> 0]

AddrOf(ph, i) == toHex(CStr(<< DataAt(ph, i), DataAt(ph, i + 1) >>))

\* Value bytes of one RRSE entry.
RrseValue(tAddrInt) ==
  IF isQuadrantRegister(tAddrInt) THEN Hex4(quadrant_ReadRegister(tAddrInt))
  ELSE IF tAddrInt = 178 \/ tAddrInt = 179
  THEN Hex2(ApplicationReadVersion(tAddrInt) % 256)
  ELSE Hex2(Acces_Read_Reg(tAddrInt % 256) % 256)

\* Second pass of RRSE from data index i: address then value, in order.
RECURSIVE RrsePayload(_, _, _)
RrsePayload(ph, i, tRegCntX2) ==
  IF i >= tRegCntX2 THEN << >>
  ELSE Hex2(AddrOf(ph, i) % 256) \o RrseValue(AddrOf(ph, i))
         \o RrsePayload(ph, i + 2, tRegCntX2)

\* First pass of RRSE: 6 bytes per quadrant register, 4 per other address.
RECURSIVE RrseAckLen(_, _, _)
RrseAckLen(ph, i, tRegCntX2) ==
  IF i >= tRegCntX2 THEN 0
  ELSE (IF isQuadrantRegister(AddrOf(ph, i)) THEN 6 ELSE 4)
         + RrseAckLen(ph, i + 2, tRegCntX2)

\* Largest number of RRSE entries whose response is built byte by byte; a
\* longer list overruns every ack buffer of the firmware.
RrseScanLimit == 32

\* Variant of CommitPoll: POLL accepted whatever the frame port does.
CommitPollAnyTime(ph, frameConnected) ==
  LET tValInt == AddrOf(ph, 0)
      body == << "0", "0", "0", "8" >> \o CMD_POLL
  IN IF tValInt < 0
     THEN [size |-> 0, ack |-> << >>, written |-> 0, op |-> NoOp]
     ELSE [size |-> 17,
           ack |-> Marker \o body \o Hex4(getCRC(body)) \o << NUL >>,
           written |-> 17,
           op |-> [kind |-> "poll", addr |-> 0, val |-> tValInt % 256]]

\* The POLL branch: rejected without an ack while a frame client is connected.
CommitPoll(ph, frameConnected) ==
  LET tValInt == AddrOf(ph, 0)
      body == << "0", "0", "0", "8" >> \o CMD_POLL
  IN IF frameConnected \/ tValInt < 0
     THEN [size |-> 0, ack |-> << >>, written |-> 0, op |-> NoOp]
     ELSE [size |-> 17,
           ack |-> Marker \o body \o Hex4(getCRC(body)) \o << NUL >>,
           written |-> 17,
           op |-> [kind |-> "poll", addr |-> 0, val |-> tValInt % 256]]

\* The WREG branch: quadrant addresses go to quadrant_WriteRegister, every
\* other address to the sensor library.
CommitWreg(ph) ==
  LET tAddrInt == AddrOf(ph, 0)
      tValInt == AddrOf(ph, 2)
      body == << "0", "0", "0", "8" >> \o CMD_WREG
  IN [size |-> 17,
      ack |-> Marker \o body \o Hex4(getCRC(body)) \o << NUL >>,
      written |-> 18,
      op |-> IF isQuadrantRegister(tAddrInt)
             THEN [kind |-> "quadrant", addr |-> tAddrInt,
                   val |-> tValInt % 256]
             ELSE [kind |-> "sensor", addr |-> tAddrInt % 256,
                   val |-> tValInt % 256]]

CommitRreg(ph) ==
  LET tAddrInt == AddrOf(ph, 0)
      qbody == << "0", "0", "0", "C" >> \o CMD_RREG
                 \o Hex4(quadrant_ReadRegister(tAddrInt))
      rd == IF tAddrInt = 178 \/ tAddrInt = 179
            THEN ApplicationReadVersion(tAddrInt) % 256
            ELSE Acces_Read_Reg(tAddrInt % 256) % 256
      body == << "0", "0", "0", "A" >> \o CMD_RREG \o Hex2(rd)
  IN IF isQuadrantRegister(tAddrInt)
     THEN [size |-> 21,
           ack |-> Marker \o qbody \o Hex4(getCRC(qbody)) \o << NUL >>,
           written |-> 21, op |-> NoOp]
     ELSE [size |-> 19,
           ack |-> Marker \o body \o Hex4(getCRC(body)) \o << NUL >>,
           written |-> 19, op |-> NoOp]

CommitRrse(ph) ==
  LET tCmdLenInt == strtoul16(ph.mCmdLen)
      tRegCntX2 == (tCmdLenInt - 8 - 2) % 65536
      n == (tRegCntX2 + 1) \div 2
  IN IF n > RrseScanLimit
     THEN [size |-> 0, ack |-> << >>, written |-> 12 + 4 * n + 5,
           op |-> NoOp]
     ELSE LET tAckLen == 8 + RrseAckLen(ph, 0, tRegCntX2)
              payload == RrsePayload(ph, 0, tRegCntX2)
              body == Hex4(tAckLen) \o CMD_RRSE \o payload
              full == Marker \o body
                        \o Hex4(getCRC(SubSeq(body \o Zeroes(4), 1, tAckLen)))
                        \o << NUL >>
              size == (tAckLen + 8) % 256
          IN [size |-> size,
              ack |-> SubSeq(full \o Zeroes(size), 1, size),
              written |-> Len(full), op |-> NoOp]

\* Variant: an unknown command is answered with a 17-byte packet.
CommitInvalidAcks ==
  [size |-> 17,
   ack |-> Marker \o Hex4(8) \o << "E", "R", "R", "0" >>
             \o << "X", "X", "X", "X", NUL >>,
   written |-> 17, op |-> NoOp]

\* The final else of cmdParser_CommitCmd: the command is none of the four;
\* an error is logged and 0 is returned.
CommitInvalid == [size |-> 0, ack |-> << >>, written |-> 0, op |-> NoOp]

cmdParser_CommitCmd(pCmdPhaser, frameConnected) ==
  LET cmd == CStr(pCmdPhaser.mCmd)
  IN CASE cmd = CMD_WREG -> CommitWreg(pCmdPhaser)
       [] cmd = CMD_RREG -> CommitRreg(pCmdPhaser)
       [] cmd = CMD_RRSE -> CommitRrse(pCmdPhaser)
       [] cmd = CMD_POLL -> CommitPoll(pCmdPhaser, frameConnected)
       [] OTHER -> CommitInvalid

\* Variant of cmdServerSetPollFreqHz: the frequency is stored as received.
cmdServerSetPollFreqHzAsSent(freqHz) == freqHz

\* cmdServerSetPollFreqHz(freqHz).
cmdServerSetPollFreqHz(freqHz) ==
  IF freqHz > POLL_MAX_FREQ_HZ THEN POLL_MAX_FREQ_HZ ELSE freqHz

(***************************************************************************)
(* Client side: packets as the bridge and the app build them.              *)
(***************************************************************************)
SkipCrc == << "X", "X", "X", "X" >>

\* Variant: the length counts the command and the data but not the CRC.
LengthFieldNoCrc(command, data) == Hex4(Len(command) + Len(data))

LengthField(command, data) == Hex4(Len(command) + Len(data) + 4)

\* buildPacket(command, data): the CRC placeholder XXXX is always sent.
buildPacket(command, data) ==
  Marker \o LengthField(command, data) \o command \o data \o SkipCrc

\* buildWREG(address, value), buildRREG(address), buildRRSE(addresses).
buildWREG(address, value) == buildPacket(CMD_WREG, Hex2(address) \o Hex2(value))

buildRREG(address) == buildPacket(CMD_RREG, Hex2(address))

RECURSIVE JoinHex2(_)
JoinHex2(addresses) ==
  IF addresses = << >> THEN << >>
  ELSE Hex2(Head(addresses)) \o JoinHex2(Tail(addresses))

buildRRSE(addresses) ==
  buildPacket(CMD_RRSE, JoinHex2(addresses) \o << "F", "F" >>)

\* computeCrc: additive checksum from the length field through the data.
computeCrc(command, data) ==
  Hex4(SumBytes(LengthField(command, data) \o command \o data) % 65536)

\* A packet carrying the given CRC field instead of the placeholder.
PacketWithCrc(command, data, crc) ==
  Marker \o LengthField(command, data) \o command \o data \o crc

(***************************************************************************)
(* History records.  ev describes the step that produced the current       *)
(* state; every action overwrites it.                                      *)
(***************************************************************************)
NoSignals == [frame |-> FALSE, cmd |-> FALSE, poll |-> 0, ble |-> FALSE]

NoEv ==
  [ kind |-> "none",       \* which step
    mode |-> "none",       \* arbiter pass: Streaming, Polling or Idle
    acquired |-> FALSE,    \* arbiter pass: DataFrameReceiveSenxor was called
    pushed |-> FALSE,      \* arbiter pass: xQueueSend was called
    b1 |-> "none",         \* cause of a write of 0xB1 in this step
    cmd |-> << >>,         \* receive: the command string dispatched on
    ret |-> 0,             \* receive: return value of cmdParser_PharseCmd
    size |-> 0,            \* receive: ack size returned by cmdParser_CommitCmd
    op |-> "none",         \* receive: side effect of the dispatch ("sensor",
                           \* "quadrant" or "poll")
    partial |-> FALSE,     \* receive: bytes of the request were left unread
    pollBefore |-> 0,      \* command server: poll frequency before the step
    disc |-> FALSE,        \* the step detected a disconnect of its channel
    ack |-> << >> ]        \* receive: the bytes handed to write() as response

Step(kind) == [NoEv EXCEPT !.kind = kind]

B1Write(by, cause) == [by |-> by, cause |-> cause]

(***************************************************************************)
(* Sensor library calls.                                                   *)
(***************************************************************************)
B1_STOP == 0
B1_START == 3

\* (Acces_Read_Reg(0xB1) & B1_SINGLE_CONT) || (Acces_Read_Reg(0xB1) &
\* B1_START_CAPTURE): the two low bits of the capture-control register.
CaptureEnabled(b1) == b1 % 4 # 0

\* Variant of RegB1After: a dispatch that lets a sensor write to any address
\* land in 0xB1.
RegB1AfterAnyAddress(op) ==
  IF op.kind = "sensor" THEN op.val ELSE regB1

\* Effect of the side effect op of a dispatched command on each variable.
RegB1After(op) ==
  IF op.kind = "sensor" /\ op.addr = REG_B1 THEN op.val ELSE regB1

QuadrantAfter(op) ==
  IF op.kind = "quadrant"
  THEN quadrant_WriteRegister(mQuadrantData, nvs, op.addr, op.val)
  ELSE [q |-> mQuadrantData, nvs |-> nvs]

PollAfter(op) ==
  IF op.kind = "poll" THEN cmdServerSetPollFreqHz(op.val) ELSE pollFreqHz

WritesB1(op) == op.kind = "sensor" /\ op.addr = REG_B1

KnownCommands == { CMD_WREG, CMD_RREG, CMD_RRSE, CMD_POLL }

(***************************************************************************)
(* Requests of the clients.                                                *)
(***************************************************************************)
\* The clients connect, send a request, drop a connection at most
\* MaxClientEvents times in all.
MaxClientEvents == 4
ClientEvent ==
  /\ clientEvents < MaxClientEvents
  /\ clientEvents' = clientEvents + 1

\* Requests a command client sends on port 3334.
CmdRequests ==
  { buildPacket(CMD_POLL, << "0", "0" >>),
    buildPacket(CMD_POLL, << "0", "5" >>),
    buildPacket(CMD_WREG, << "B", "1", "0", "3" >>),
    buildPacket(CMD_WREG, << "B", "4", "0", "3" >>) }

\* Requests a frame client sends on port 3333.
FrameRequests ==
  { buildPacket(CMD_POLL, << "0", "5" >>),
    buildPacket(CMD_RREG, << "B", "1" >>) }

\* read(connect_sock, mRxBuff, 49) into the zeroed buffer.
FRAME_RX_LEN == 49
Pad49(bytes) == SubSeq(bytes \o Zeroes(FRAME_RX_LEN), 1, FRAME_RX_LEN)

\* Requests a command client sends in SpecCodec, which the network may
\* deliver in pieces: CRC skipped, CRC equal to the additive sum, and two
\* with a CRC that is neither.
BadCrc == << "0", "0", "0", "0" >>
CodecRequests ==
  { buildPacket(CMD_WREG, << "B", "1", "0", "3" >>),
    PacketWithCrc(CMD_WREG, << "B", "4", "0", "3" >>,
                  computeCrc(CMD_WREG, << "B", "4", "0", "3" >>)),
    PacketWithCrc(CMD_WREG, << "B", "1", "0", "3" >>, BadCrc),
    PacketWithCrc(CMD_POLL, << "0", "5" >>, BadCrc) }

\* Requests a command client sends in SpecRegs, each delivered whole: register
\* reads and writes, register lists, a poll request and a command the
\* firmware does not dispatch.
CMD_WSID == << "W", "S", "I", "D" >>
\* WREG B1 03 under a length field that is not hexadecimal (ZZZZ), one
\* below the range (0004) and one above it (1000 = 4096).
BadLengthRequests ==
  { Marker \o f \o CMD_WREG \o << "B", "1", "0", "3" >> \o SkipCrc :
      f \in { << "Z", "Z", "Z", "Z" >>, << "0", "0", "0", "4" >>,
              << "1", "0", "0", "0" >> } }

\* Two requests a client writes back to back, which one read returns
\* together: WREG C0 14 followed by POLL 05.
PairedRequests ==
  { buildWREG(192, 20) \o buildPacket(CMD_POLL, << "0", "5" >>) }

RegRequests ==
  { buildRRSE(<< 194, 196, 198, 200 >>),
    buildRRSE(<< 177, 194 >>),
    buildRRSE(<< 194, 195, 196, 197, 198, 199, 200, 201, 202 >>),
    buildRRSE(<< 224, 229 >>),
    buildRREG(194), buildRREG(177), buildRREG(224), buildRREG(229),
    buildWREG(192, 20), buildWREG(177, 3),
    buildPacket(CMD_POLL, << "0", "5" >>),
    buildPacket(CMD_POLL, << "1", "9" >>),
    buildPacket(CMD_POLL, << "1", "A" >>),
    buildPacket(CMD_POLL, << "F", "F" >>),
    buildPacket(CMD_WSID, << "A", "B" >>) }
    \cup BadLengthRequests \cup PairedRequests

\* The CRC field of a request: its last four bytes.
CrcField(r) == SubSeq(r, Len(r) - 3, Len(r))

\* The sender's view of a request: the CRC field is XXXX or the hexadecimal
\* sum of the bytes from the length field through the end of data.
WellFormed(r) ==
  \/ CrcField(r) = SkipCrc
  \/ CrcField(r) = Hex4(SumBytes(SubSeq(r, 5, Len(r) - 4)) % 65536)

Segments(r) == { SubSeq(r, i, j) : i \in 1 .. Len(r), j \in 1 .. Len(r) } \ { << >> }

\* Every byte string one read of a server can return.
ParserInputs ==
  CmdRequests \cup { Pad49(r) : r \in FrameRequests \cup { << >> } }
    \cup UNION { Segments(r) : r \in CodecRequests }
    \cup RegRequests

\* cmdParser_PharseCmd on a freshly initialised parser, tabulated over the
\* inputs (both servers call cmdParser_Init after every receive).
PharseCmd ==
  [rx \in ParserInputs |-> cmdParser_PharseCmd(cmdParser_Init, rx)]

(***************************************************************************)
(* Command server (cmdServerTask.c).                                       *)
(***************************************************************************)
\* cmdServerReceive after read returned the bytes rx (len > 0): parse,
\* commit, send the ack if there is one, reset the parser.  peerGone says
\* that the peer dropped the connection between the read and the write, so
\* that the write of cmdServerSend fails.
\* Variant of cmdServerDrop: a disconnect that keeps the poll frequency.
cmdServerDropKeepsPoll ==
  /\ cmdIsClientConnected' = FALSE
  /\ UNCHANGED pollFreqHz

\* The two statements of every disconnect path of the command server
\* (read error, read returning 0, write error): isClientConnected = false;
\* pollFreqHz = 0.
cmdServerDrop ==
  /\ cmdIsClientConnected' = FALSE
  /\ pollFreqHz' = 0

\* static uint8_t mAckBuff[64] of the command server.
CMD_ACK_LEN == 64

\* The bytes write() transmits from an ack buffer of cap bytes after
\* cmdParser_CommitCmd returned c: the bytes stored inside the buffer as
\* stored; bytes past its end are read from whatever object follows it,
\* which either still holds what the overrun stored there or holds other
\* bytes (shown as NUL).
AckBytes(c, cap) ==
  IF c.size <= cap THEN { c.ack }
  ELSE { c.ack,
         SubSeq(c.ack, 1, cap) \o Zeroes(c.size - cap) }

cmdServerReceive(rx, partial, peerGone) ==
  \E p \in { PharseCmd[rx] } :
  \E c \in { cmdParser_CommitCmd(p.ph, tcpIsClientConnected) } :
  \E qa \in { QuadrantAfter(c.op) } :
  \E sent \in AckBytes(c, CMD_ACK_LEN) :
  \E sendFails \in { c.size > 0 /\ peerGone } :
     /\ regB1' = RegB1After(c.op)
     /\ mQuadrantData' = qa.q
     /\ nvs' = qa.nvs
     /\ IF sendFails THEN cmdServerDrop
        ELSE /\ pollFreqHz' = PollAfter(c.op)
             /\ UNCHANGED cmdIsClientConnected
     /\ cmdLink' = IF sendFails THEN "none" ELSE cmdLink
     /\ b1Write' = IF WritesB1(c.op) THEN B1Write("cmdServerTask", "WREG")
                   ELSE b1Write
     /\ ev' = [Step("cmdRx") EXCEPT
                 !.cmd = CStr(p.ph.mCmd),
                 !.ret = p.ret,
                 !.size = c.size,
                 !.op = c.op.kind,
                 !.partial = partial,
                 !.pollBefore = pollFreqHz,
                 !.disc = sendFails,
                 !.ack = sent,
                 !.b1 = IF WritesB1(c.op) THEN "WREG" ELSE "none"]

\* The peer closes or resets the command connection.
CmdPeerDrop ==
  /\ cmdLink = "up"
  /\ cmdWire = << >>
  /\ cmdLink' = "gone"
  /\ ev' = NoEv
  /\ UNCHANGED << cmdIsClientConnected, pollFreqHz, cmdWire >>
  /\ UNCHANGED << sensorVars, tcpVars, arbVars, bleVars >>
  /\ UNCHANGED << b1Write, pollStarts, inflight >>
  /\ ClientEvent

\* cmdServerAccept: blocked in accept while no client is connected; a
\* client connects to port 3334 and accept returns.
cmdServerAccept ==
  /\ ~cmdIsClientConnected
  /\ cmdLink = "none"
  /\ cmdLink' = "up"
  /\ cmdIsClientConnected' = TRUE
  /\ ev' = NoEv
  /\ UNCHANGED << pollFreqHz, cmdWire >>
  /\ UNCHANGED << sensorVars, tcpVars, arbVars, bleVars >>
  /\ UNCHANGED << b1Write, pollStarts, inflight >>
  /\ ClientEvent

\* cmdServerReceive when read returns 0 (orderly close) or a negative value
\* (receive error): both branches clear the flag and the poll frequency.
cmdServerReceiveFail ==
  /\ cmdIsClientConnected
  /\ cmdLink = "gone"
  /\ cmdServerDrop
  /\ cmdLink' = "none"
  /\ cmdWire' = << >>
  /\ ev' = [Step("cmdReadFail") EXCEPT !.disc = TRUE,
                                       !.pollBefore = pollFreqHz]
  /\ UNCHANGED << sensorVars, tcpVars, arbVars, bleVars >>
  /\ UNCHANGED << b1Write, pollStarts, inflight >>
  /\ UNCHANGED clientEvents

\* A client request that one read of cmdServerReceive returns whole.
CmdRequest ==
  /\ cmdIsClientConnected
  /\ cmdLink = "up"
  /\ cmdWire = << >>
  /\ \E req \in CmdRequests, peerGone \in BOOLEAN :
       cmdServerReceive(req, FALSE, peerGone)
  /\ UNCHANGED << cmdWire >>
  /\ UNCHANGED << tcpVars, arbVars, bleVars >>
  /\ UNCHANGED << pollStarts, inflight >>
  /\ ClientEvent

(***************************************************************************)
(* Frame server (tcpServerTask.c): the push task tcpServerTask and the     *)
(* receive task tcpServerRecvTask share connect_sock.                      *)
(***************************************************************************)
\* errno of a failed read of connect_sock, by the state of the connection:
\* "dead" (reset by the peer, or aborted by the keepalive probes) or "none"
\* (closed by the other task).
ECONNRESET == 104
ENOTCONN == 128
ECONNABORTED == 113
EBADF == 9

ReadErrno(link) ==
  IF link = "dead" THEN {ECONNRESET, ECONNABORTED, ENOTCONN} ELSE {EBADF}

\* A write to connect_sock succeeds on a live connection, may still succeed
\* after the peer closed its side, and fails otherwise.
WriteOutcomes(link) ==
  CASE link = "up" -> {TRUE}
    [] link = "fin" -> {TRUE, FALSE}
    [] OTHER -> {FALSE}

\* The peer closes, resets, or silently leaves the frame connection (the
\* keepalive probes then abort it).
FramePeerDrop ==
  /\ frameLink = "up"
  /\ \E how \in {"fin", "dead"} : frameLink' = how
  /\ ev' = NoEv
  /\ UNCHANGED << tcpIsClientConnected, pushPc, recvPc,
                  frameAck, tcpServerSemaphore, senxorFrameQueue >>
  /\ UNCHANGED << sensorVars, cmdVars, arbVars, bleVars >>
  /\ UNCHANGED << b1Write, pollStarts, inflight >>
  /\ ClientEvent

\* tcpServerRestart(0) blocked in accept: a client connects to port 3333 and
\* accept returns; isClientConnected = true; Acces_Write_Reg(0xB1, 0x03).
tcpServerRestartAccept(by) ==
  /\ frameLink' = "up"
  /\ tcpIsClientConnected' = TRUE
  /\ regB1' = B1_START
  /\ b1Write' = B1Write(by, "accept")
  /\ ev' = NoEv

\* tcpServerTask blocked in accept: the initial tcpServerRestart(0), after
\* which it creates tcpServerRecvTask, or the restart inside a failed
\* tcpServerSend, after which it gives the semaphore back.
PushAccept ==
  /\ pushPc \in {"accept0", "restart"}
  /\ tcpServerRestartAccept("tcpServerTask")
  /\ pushPc' = "wait"
  /\ recvPc' = IF pushPc = "accept0" THEN "read" ELSE recvPc
  /\ tcpServerSemaphore' =
       IF pushPc = "restart" THEN "none" ELSE tcpServerSemaphore
  /\ UNCHANGED << frameAck, senxorFrameQueue, mQuadrantData, nvs >>
  /\ UNCHANGED << cmdVars, arbVars, bleVars >>
  /\ UNCHANGED << pollStarts, inflight >>
  /\ ClientEvent

\* xQueueReceive(senxorFrameQueue, ..) && isClientConnected.
PushReceive ==
  /\ pushPc = "wait"
  /\ senxorFrameQueue > 0
  /\ senxorFrameQueue' = senxorFrameQueue - 1
  /\ pushPc' = IF tcpIsClientConnected THEN "take" ELSE "wait"
  /\ ev' = NoEv
  /\ UNCHANGED << tcpIsClientConnected, frameLink, recvPc,
                  frameAck, tcpServerSemaphore >>
  /\ UNCHANGED << sensorVars, cmdVars, arbVars, bleVars >>
  /\ UNCHANGED << b1Write, pollStarts >>
  /\ UNCHANGED clientEvents

PushDequeue == PushReceive /\ UNCHANGED inflight

\* Variant of PollFreqAfterRestart: a restart that clears the poll frequency.
PollFreqAfterRestartReset(poll) == 0

\* tcpServerRestart leaves the poll frequency of the command server alone.
PollFreqAfterRestart(poll) == poll

\* errno after a failed write on the frame socket.
WriteErrno(link) ==
  IF link \in {"fin", "dead"} THEN {ECONNRESET, ECONNABORTED, ENOTCONN}
  ELSE {EBADF}

\* Variant of SendErrorStops: the stop written for errno 104 and 128 only,
\* as tcpServerGet does.
SendErrorStopsOnReset(errno) == errno \in {ECONNRESET, ENOTCONN}

\* switch(errno) of tcpServerSend: case 104, case 128 and default all call
\* Acces_Write_Reg(0xB1, 0x00).
SendErrorStops(errno) ==
  CASE errno \in {ECONNRESET, ENOTCONN} -> TRUE
    [] OTHER -> TRUE

\* tcpServerSend: on a write error isClientConnected = false,
\* Acces_Write_Reg(0xB1, 0x00), tcpServerRestart(0) (close, then accept).
tcpServerSend(by, ok) ==
  \E errno \in (IF ok THEN {0} ELSE WriteErrno(frameLink)) :
  \E stops \in { ~ok /\ SendErrorStops(errno) } :
    /\ tcpIsClientConnected' = IF ok THEN tcpIsClientConnected ELSE FALSE
    /\ regB1' = IF stops THEN B1_STOP ELSE regB1
    /\ frameLink' = IF ok THEN frameLink ELSE "none"
    /\ pollFreqHz' =
         IF ok THEN pollFreqHz ELSE PollFreqAfterRestart(pollFreqHz)
    /\ b1Write' = IF stops THEN B1Write(by, "sendError") ELSE b1Write
    /\ ev' = IF ok THEN NoEv
             ELSE [Step("frameSendFail") EXCEPT
                     !.disc = TRUE,
                     !.b1 = IF stops THEN "sendError" ELSE "none"]

\* xSemaphoreTake; tcpServerSend(frame, 10240); xSemaphoreGive.
PushWrite ==
  /\ pushPc = "take"
  /\ tcpServerSemaphore = "none"
  /\ \E ok \in WriteOutcomes(frameLink) :
       /\ tcpServerSend("tcpServerTask", ok)
       /\ pushPc' = IF ok THEN "wait" ELSE "restart"
       /\ tcpServerSemaphore' = IF ok THEN "none" ELSE "tcpServerTask"
  /\ UNCHANGED << recvPc, frameAck, senxorFrameQueue, mQuadrantData, nvs >>
  /\ UNCHANGED << cmdIsClientConnected, cmdLink, cmdWire >>
  /\ UNCHANGED << arbVars, bleVars >>
  /\ UNCHANGED pollStarts
  /\ UNCHANGED clientEvents

PushSend == PushWrite /\ UNCHANGED inflight

\* tcpServerGet when read returns status >= 0: parse the 49-byte buffer,
\* commit, keep the ack for the send under the semaphore.
tcpServerGetData(rx) ==
  \E p \in { PharseCmd[Pad49(rx)] } :
  \E c \in { cmdParser_CommitCmd(p.ph, tcpIsClientConnected) } :
  \E qa \in { QuadrantAfter(c.op) } :
     /\ regB1' = RegB1After(c.op)
     /\ mQuadrantData' = qa.q
     /\ nvs' = qa.nvs
     /\ pollFreqHz' = PollAfter(c.op)
     /\ frameAck' = IF c.size # 0 THEN c.ack ELSE << >>
     /\ recvPc' = IF c.size # 0 THEN "ack" ELSE "post"
     /\ b1Write' = IF WritesB1(c.op) THEN B1Write("tcpServerRecvTask", "WREG")
                   ELSE b1Write
     /\ ev' = [Step("frameRx") EXCEPT
                 !.cmd = CStr(p.ph.mCmd),
                 !.ret = p.ret,
                 !.size = c.size,
                 !.op = c.op.kind,
                 !.b1 = IF WritesB1(c.op) THEN "WREG" ELSE "none"]

\* tcpServerGet when read fails (status < 0), then tcpServerRestart(0) up to
\* the blocking accept: only errno 104 and 128 stop the sensor.
tcpServerGetError(errno) ==
  LET stops == errno \in {ECONNRESET, ENOTCONN}
  IN /\ regB1' = IF stops THEN B1_STOP ELSE regB1
     /\ b1Write' = IF stops THEN B1Write("tcpServerRecvTask", "readError")
                   ELSE b1Write
     /\ tcpIsClientConnected' = FALSE
     /\ frameLink' = "none"
     /\ pollFreqHz' = PollFreqAfterRestart(pollFreqHz)
     /\ recvPc' = "restart"
     /\ ev' = [Step("frameReadFail") EXCEPT
                 !.disc = TRUE,
                 !.b1 = IF stops THEN "readError" ELSE "none"]

\* tcpServerRecvTask in read: a request of the client arrives.
RecvRequest ==
  /\ recvPc = "read"
  /\ frameLink = "up"
  /\ \E req \in FrameRequests : tcpServerGetData(req)
  /\ UNCHANGED << tcpIsClientConnected, frameLink, pushPc,
                  tcpServerSemaphore, senxorFrameQueue >>
  /\ UNCHANGED << cmdIsClientConnected, cmdLink, cmdWire >>
  /\ UNCHANGED << arbVars, bleVars >>
  /\ UNCHANGED << pollStarts, inflight >>
  /\ ClientEvent

\* tcpServerRecvTask in read: the peer closed, read returns 0 and the zeroed
\* buffer is parsed.
RecvEof ==
  /\ recvPc = "read"
  /\ frameLink = "fin"
  /\ tcpServerGetData(<< >>)
  /\ UNCHANGED << tcpIsClientConnected, frameLink, pushPc,
                  tcpServerSemaphore, senxorFrameQueue >>
  /\ UNCHANGED << cmdIsClientConnected, cmdLink, cmdWire >>
  /\ UNCHANGED << arbVars, bleVars >>
  /\ UNCHANGED << pollStarts, inflight >>
  /\ UNCHANGED clientEvents

\* tcpServerRecvTask in read: the read fails.
RecvError ==
  /\ recvPc = "read"
  /\ frameLink \in {"dead", "none"}
  /\ \E errno \in ReadErrno(frameLink) : tcpServerGetError(errno)
  /\ UNCHANGED << pushPc, frameAck, tcpServerSemaphore,
                  senxorFrameQueue, mQuadrantData, nvs >>
  /\ UNCHANGED << cmdIsClientConnected, cmdLink, cmdWire >>
  /\ UNCHANGED << arbVars, bleVars >>
  /\ UNCHANGED << pollStarts, inflight >>
  /\ UNCHANGED clientEvents

\* tcpServerGet sends the ack: xSemaphoreTake; tcpServerSend; xSemaphoreGive.
RecvAck ==
  /\ recvPc = "ack"
  /\ tcpServerSemaphore = "none"
  /\ \E ok \in WriteOutcomes(frameLink) :
       /\ tcpServerSend("tcpServerRecvTask", ok)
       /\ recvPc' = IF ok THEN "post" ELSE "ackRestart"
       /\ tcpServerSemaphore' = IF ok THEN "none" ELSE "tcpServerRecvTask"
  /\ frameAck' = << >>
  /\ UNCHANGED << pushPc, senxorFrameQueue, mQuadrantData, nvs >>
  /\ UNCHANGED << cmdIsClientConnected, cmdLink, cmdWire >>
  /\ UNCHANGED << arbVars, bleVars >>
  /\ UNCHANGED << pollStarts, inflight >>
  /\ UNCHANGED clientEvents

\* tcpServerRecvTask after tcpServerGet() >= 0: isClientConnected = true;
\* Acces_Write_Reg(0xB1, 0x03); vTaskDelay(200 ms).
RecvPost ==
  /\ recvPc = "post"
  /\ tcpIsClientConnected' = TRUE
  /\ regB1' = B1_START
  /\ recvPc' = "read"
  /\ b1Write' = B1Write("tcpServerRecvTask", "received")
  /\ ev' = NoEv
  /\ UNCHANGED << frameLink, pushPc, frameAck,
                  tcpServerSemaphore, senxorFrameQueue, mQuadrantData, nvs >>
  /\ UNCHANGED << cmdVars, arbVars, bleVars >>
  /\ UNCHANGED << pollStarts, inflight >>
  /\ UNCHANGED clientEvents

\* tcpServerRecvTask blocked in accept, after a failed read or inside the
\* failed send of an ack.
RecvAccept ==
  /\ recvPc \in {"restart", "ackRestart"}
  /\ tcpServerRestartAccept("tcpServerRecvTask")
  /\ recvPc' = IF recvPc = "restart" THEN "read" ELSE "post"
  /\ tcpServerSemaphore' =
       IF recvPc = "ackRestart" THEN "none" ELSE tcpServerSemaphore
  /\ UNCHANGED << pushPc, frameAck, senxorFrameQueue, mQuadrantData, nvs >>
  /\ UNCHANGED << cmdVars, arbVars, bleVars >>
  /\ UNCHANGED << pollStarts, inflight >>
  /\ ClientEvent

(***************************************************************************)
(* Broadcast transport (Drv_CombustionBle): GATT connect and disconnect.   *)
(***************************************************************************)
COMBUSTION_MAX_CONNECTIONS == 3
MaxConnId == 1
ConnIds == 0 .. MaxConnId - 1
Inactive == 0 - 1

FreeSlots == { i \in 1 .. COMBUSTION_MAX_CONNECTIONS : clients[i] = Inactive }
SlotsOf(conn_id) ==
  { i \in 1 .. COMBUSTION_MAX_CONNECTIONS : clients[i] = conn_id }
MinOf(S) == CHOOSE i \in S : \A j \in S : i <= j

combustionBle_FindFreeClientSlot ==
  IF FreeSlots = {} THEN 0 - 1 ELSE MinOf(FreeSlots)

combustionBle_FindClientByConnId(conn_id) ==
  IF SlotsOf(conn_id) = {} THEN 0 - 1 ELSE MinOf(SlotsOf(conn_id))

combustionBle_GetConnectionCount == connected_count

\* case ESP_GATTS_CONNECT_EVT of the GATT server event handler.
GattsConnect(conn_id) ==
  LET slot == combustionBle_FindFreeClientSlot
  IN IF slot >= 0
     THEN /\ clients' = [clients EXCEPT ![slot] = conn_id]
          /\ notifications_enabled' =
               [notifications_enabled EXCEPT ![slot] = FALSE]
          /\ connected_count' = (connected_count + 1) % 256
     ELSE UNCHANGED << clients, connected_count, notifications_enabled >>

\* Variant of GattsDisconnect: the count taken down for any connection id.
GattsDisconnectUnchecked(conn_id) ==
  LET slot == combustionBle_FindClientByConnId(conn_id)
  IN /\ connected_count' = (connected_count + 255) % 256
     /\ IF slot >= 0
        THEN /\ clients' = [clients EXCEPT ![slot] = Inactive]
             /\ notifications_enabled' =
                  [notifications_enabled EXCEPT ![slot] = FALSE]
        ELSE UNCHANGED << clients, notifications_enabled >>

\* case ESP_GATTS_DISCONNECT_EVT of the GATT server event handler.
GattsDisconnect(conn_id) ==
  LET slot == combustionBle_FindClientByConnId(conn_id)
  IN IF slot >= 0
     THEN /\ clients' = [clients EXCEPT ![slot] = Inactive]
          /\ notifications_enabled' =
               [notifications_enabled EXCEPT ![slot] = FALSE]
          /\ connected_count' = (connected_count + 255) % 256
     ELSE UNCHANGED << clients, connected_count, notifications_enabled >>

\* ESP_GATTS_CONNECT_EVT for a connection id the stack has not in use.
BleConnect ==
  /\ \E conn_id \in ConnIds :
       /\ SlotsOf(conn_id) = {}
       /\ GattsConnect(conn_id)
  /\ ev' = NoEv
  /\ UNCHANGED << sensorVars, cmdVars, tcpVars, arbVars >>
  /\ UNCHANGED << b1Write, pollStarts, inflight >>
  /\ ClientEvent

\* ESP_GATTS_DISCONNECT_EVT.
BleDisconnect ==
  /\ \E conn_id \in ConnIds : GattsDisconnect(conn_id)
  /\ ev' = NoEv
  /\ UNCHANGED << sensorVars, cmdVars, tcpVars, arbVars >>
  /\ UNCHANGED << b1Write, pollStarts, inflight >>
  /\ ClientEvent

\* ESP_GATTS_WRITE_EVT on the CCCD handle with a two-byte value: bit 0 of
\* the value enables or disables notifications for the writing client.
BleWriteCccd ==
  /\ \E conn_id \in ConnIds, cccd_val \in { 0, 1, 2 } :
       LET slot == combustionBle_FindClientByConnId(conn_id)
       IN IF slot >= 0
          THEN notifications_enabled' =
                 [notifications_enabled EXCEPT ![slot] = (cccd_val % 2 = 1)]
          ELSE UNCHANGED notifications_enabled
  /\ ev' = NoEv
  /\ UNCHANGED << clients, connected_count >>
  /\ UNCHANGED << sensorVars, cmdVars, tcpVars, arbVars >>
  /\ UNCHANGED << b1Write, pollStarts, inflight >>
  /\ ClientEvent

\* static uint8_t probe_status_value[20] = {0}: no statement of the
\* firmware stores into it.
probe_status_value == [i \in 1 .. 20 |-> 0]

\* combustionBle_SendNotifications: the value sent to each active slot
\* that has notifications enabled.
combustionBle_SendNotifications ==
  [i \in { s \in 1 .. COMBUSTION_MAX_CONNECTIONS :
             clients[s] # Inactive /\ notifications_enabled[s] }
     |-> probe_status_value]

(***************************************************************************)
(* Capture arbiter (senxorTask).                                           *)
(***************************************************************************)
THERMAL_FRAME_BUFFER_NO == 3
configTICK_RATE_HZ == 100
pdMS_TO_TICKS(ms) == (ms * configTICK_RATE_HZ) \div 1000

\* Largest number of ticks one pass of the loop takes after it read the
\* tick count (the acquisition plus vTaskDelay(1)).
MaxTickGap == 1

\* if (1 || (currentTime - lastPollTime) >= pdMS_TO_TICKS(pollDelayMs))
GatePasses(elapsed, thr) == TRUE \/ elapsed >= thr

\* quadrant_Calculate on a frame whose image pixels all hold the value
\* pixel: a quadrant without pixels keeps the maximum 0.
SamplePixel == 4660
quadrant_Calculate(q, pixel) ==
  LET left == q.Xsplit > 0
      right == q.Xsplit < SENXOR_FRAME_WIDTH
      top == q.Ysplit > 0
      bottom == q.Ysplit < SENXOR_FRAME_HEIGHT
  IN [q EXCEPT
        !.Amax = IF left /\ top THEN pixel ELSE 0,
        !.Bmax = IF right /\ top THEN pixel ELSE 0,
        !.Cmax = IF left /\ bottom THEN pixel ELSE 0,
        !.Dmax = IF right /\ bottom THEN pixel ELSE 0,
        !.Acenter = pixel, !.Bcenter = pixel,
        !.Ccenter = pixel, !.Dcenter = pixel,
        !.Aburnert = pixel, !.Bburnert = pixel,
        !.Cburnert = pixel, !.Dburnert = pixel]

\* Variant of ModeOf: the polling test placed before the frame-port test.
ModeOfPollingFirst(sig) ==
  IF (sig.cmd /\ sig.poll > 0) \/ sig.ble THEN "Polling"
  ELSE IF sig.frame THEN "Streaming"
  ELSE "Idle"

\* The mode the loop selects from the four sampled signals.
ModeOf(sig) ==
  IF sig.frame THEN "Streaming"
  ELSE IF (sig.cmd /\ sig.poll > 0) \/ sig.ble THEN "Polling"
  ELSE "Idle"

\* Variant of PollStartNeeded: the start issued on every pass.
PollStartAlways(started) == TRUE

\* if (!pollCaptureStarted): the start is issued once per stay in Polling.
PollStartNeeded(started) == ~started

\* effectiveFreq = (pollFreq > 0) ? pollFreq : 25.
BLE_POLL_FREQ_HZ == 25
EffectiveFreq(pollFreq) == IF pollFreq > 0 THEN pollFreq ELSE BLE_POLL_FREQ_HZ

\* Top of the loop: read the four signals.
ArbSample ==
  /\ arbPc = "sample"
  /\ arbPc' = "act"
  /\ sampled' = [frame |-> tcpIsClientConnected,
                 cmd |-> cmdIsClientConnected,
                 poll |-> pollFreqHz,
                 ble |-> combustionBle_GetConnectionCount > 0]
  /\ ev' = NoEv
  /\ UNCHANGED << pollCaptureStarted, pollAge >>
  /\ UNCHANGED << sensorVars, cmdVars, tcpVars, bleVars >>
  /\ UNCHANGED << b1Write, pollStarts, inflight >>
  /\ UNCHANGED clientEvents
Tick(mode) ==
  [Step("arbTick") EXCEPT !.mode = mode]

\* Variant: a send that always adds an entry.
xQueueSendGrows(count, length) == count + 1

\* xQueueSend(queue, item, 0) on a queue of the given length: the item is
\* added when there is room and dropped otherwise; the call does not wait.
xQueueSend(count, length) == IF count < length THEN count + 1 ELSE count

\* Mode 1: frame port connected.  gotFrame: DataFrameGetPointer() != 0.
ArbStreamingPass ==
  /\ arbPc = "act"
  /\ ModeOf(sampled) = "Streaming"
  /\ \E gotFrame \in BOOLEAN :
       LET acquire == CaptureEnabled(Acces_Read_Reg(REG_B1))
           push == acquire /\ gotFrame
       IN /\ senxorFrameQueue' =
               IF push THEN xQueueSend(senxorFrameQueue, THERMAL_FRAME_BUFFER_NO)
               ELSE senxorFrameQueue
          /\ mQuadrantData' =
               IF push THEN quadrant_Calculate(mQuadrantData, SamplePixel)
               ELSE mQuadrantData
          /\ ev' = [Tick("Streaming") EXCEPT !.acquired = acquire,
                                             !.pushed = push]
  /\ pollCaptureStarted' = FALSE
  /\ pollAge' = 0
  /\ pollStarts' = 0
  /\ arbPc' = "sample"
  /\ sampled' = NoSignals
  /\ UNCHANGED b1Write
  /\ UNCHANGED << tcpIsClientConnected, frameLink, pushPc,
                  recvPc, frameAck, tcpServerSemaphore >>
  /\ UNCHANGED << regB1, nvs >>
  /\ UNCHANGED << cmdVars, bleVars >>
  /\ UNCHANGED clientEvents

ArbStreaming == ArbStreamingPass /\ UNCHANGED inflight

\* Mode 2: command port polling or broadcast clients.
ArbPolling ==
  /\ arbPc = "act"
  /\ ModeOf(sampled) = "Polling"
  /\ \E after \in 1 .. MaxTickGap, gotFrame \in BOOLEAN :
       LET starts == PollStartNeeded(pollCaptureStarted)
           effectiveFreq == EffectiveFreq(sampled.poll)
           pollDelayMs == 1000 \div effectiveFreq
           elapsed == IF starts THEN pdMS_TO_TICKS(50) ELSE pollAge
           thr == pdMS_TO_TICKS(pollDelayMs)
           acquire == GatePasses(elapsed, thr)
       IN /\ regB1' = IF starts THEN B1_START ELSE regB1
          /\ b1Write' = IF starts THEN B1Write("senxorTask", "pollStart")
                        ELSE b1Write
          /\ pollStarts' = IF starts THEN pollStarts + 1 ELSE pollStarts
          /\ pollAge' = IF acquire THEN after ELSE elapsed + after
          /\ mQuadrantData' =
               IF acquire /\ gotFrame
               THEN quadrant_Calculate(mQuadrantData, SamplePixel)
               ELSE mQuadrantData
          /\ ev' = [Tick("Polling") EXCEPT
                      !.acquired = acquire,
                      !.b1 = IF starts THEN "pollStart" ELSE "none"]
  /\ pollCaptureStarted' = TRUE
  /\ arbPc' = "sample"
  /\ sampled' = NoSignals
  /\ UNCHANGED << inflight, nvs >>
  /\ UNCHANGED << cmdVars, tcpVars, bleVars >>
  /\ UNCHANGED clientEvents

\* Variant of IdleStopNeeded: the Idle branch without the stop.
IdleStopNever(started) == FALSE

\* if (pollCaptureStarted) of the Idle branch: the stop is issued when the
\* previous pass was a Polling pass.
IdleStopNeeded(started) == started

\* Mode 3: nothing connected.
ArbIdle ==
  /\ arbPc = "act"
  /\ ModeOf(sampled) = "Idle"
  /\ regB1' = IF IdleStopNeeded(pollCaptureStarted) THEN B1_STOP ELSE regB1
  /\ b1Write' = IF IdleStopNeeded(pollCaptureStarted)
                THEN B1Write("senxorTask", "idleStop")
                ELSE b1Write
  /\ ev' = [Tick("Idle") EXCEPT
              !.b1 = IF IdleStopNeeded(pollCaptureStarted)
                     THEN "idleStop" ELSE "none"]
  /\ pollCaptureStarted' = FALSE
  /\ pollAge' = 0
  /\ pollStarts' = 0
  /\ arbPc' = "sample"
  /\ sampled' = NoSignals
  /\ UNCHANGED << inflight, mQuadrantData, nvs >>
  /\ UNCHANGED << cmdVars, tcpVars, bleVars >>
  /\ UNCHANGED clientEvents

(***************************************************************************)
(* The firmware: app_main has run quadrant_Init and senxorInit (which      *)
(* writes 0x00 to 0xB1) and created the tasks.                             *)
(***************************************************************************)
EmptyStore == [k \in NvsKeys |-> NvsAbsent]
NoRequest == [sent |-> << >>, dispatched |-> 0, effects |-> 0]

\* The state after start-up with the persistent store holding store.
Boot(store) ==
  /\ regB1 = B1_STOP
  /\ nvs = store
  /\ mQuadrantData = quadrant_Init(store)
  /\ cmdIsClientConnected = FALSE
  /\ pollFreqHz = 0
  /\ cmdLink = "none"
  /\ cmdWire = << >>
  /\ tcpIsClientConnected = FALSE
  /\ frameLink = "none"
  /\ pushPc = "accept0"
  /\ recvPc = "off"
  /\ frameAck = << >>
  /\ tcpServerSemaphore = "none"
  /\ senxorFrameQueue = 0
  /\ arbPc = "sample"
  /\ sampled = NoSignals
  /\ pollCaptureStarted = FALSE
  /\ pollAge = 0
  /\ clients = [i \in 1 .. COMBUSTION_MAX_CONNECTIONS |-> Inactive]
  /\ notifications_enabled = [i \in 1 .. COMBUSTION_MAX_CONNECTIONS |-> FALSE]
  /\ connected_count = 0
  /\ ev = NoEv
  /\ b1Write = B1Write("senxorInit", "init")
  /\ pollStarts = 0
  /\ clientEvents = 0

app_main == Boot(EmptyStore)

Init ==
  /\ app_main
  /\ inflight = NoRequest

Next ==
  \/ CmdPeerDrop
  \/ cmdServerAccept
  \/ cmdServerReceiveFail
  \/ CmdRequest
  \/ FramePeerDrop
  \/ PushAccept
  \/ PushDequeue
  \/ PushSend
  \/ RecvRequest
  \/ RecvEof
  \/ RecvError
  \/ RecvAck
  \/ RecvPost
  \/ RecvAccept
  \/ BleConnect
  \/ BleDisconnect
  \/ ArbSample
  \/ ArbStreaming
  \/ ArbPolling
  \/ ArbIdle

Spec == Init /\ [][Next]_vars

(***************************************************************************)
(* The command channel with requests delivered in pieces.                  *)
(***************************************************************************)
CMD_RX_LEN == 127
Min(a, b) == IF a <= b THEN a ELSE b

\* The client writes one request to the command connection.
CmdClientSend ==
  /\ cmdLink = "up"
  /\ cmdWire = << >>
  /\ \E r \in CodecRequests :
       /\ cmdWire' = r
       /\ inflight' = [sent |-> r, dispatched |-> 0, effects |-> 0]
  /\ ev' = NoEv
  /\ ClientEvent
  /\ UNCHANGED << cmdIsClientConnected, pollFreqHz, cmdLink >>
  /\ UNCHANGED << sensorVars, tcpVars, arbVars, bleVars >>
  /\ UNCHANGED << b1Write, pollStarts >>

\* cmdServerReceive when read returns the k bytes that have arrived so far
\* (at most sizeof(mRxBuff) - 1).
CmdReceiveBytes ==
  /\ cmdIsClientConnected
  /\ cmdLink = "up"
  /\ cmdWire # << >>
  /\ \E k \in 1 .. Min(Len(cmdWire), CMD_RX_LEN) :
       /\ cmdServerReceive(SubSeq(cmdWire, 1, k),
                           cmdWire = inflight.sent /\ k < Len(cmdWire), FALSE)
       /\ cmdWire' = SubSeq(cmdWire, k + 1, Len(cmdWire))
  /\ inflight' =
       [inflight EXCEPT
          !.dispatched = @ + (IF ev'.size > 0 \/ ev'.op # "none" THEN 1 ELSE 0),
          !.effects = @ + (IF ev'.op # "none" THEN 1 ELSE 0)]
  /\ UNCHANGED << tcpVars, arbVars, bleVars >>
  /\ UNCHANGED << pollStarts, clientEvents >>

NextCodec ==
  \/ cmdServerAccept
  \/ CmdClientSend
  \/ CmdReceiveBytes
  \/ CmdPeerDrop
  \/ cmdServerReceiveFail
  \/ ArbSample
  \/ ArbPolling
  \/ ArbIdle

SpecCodec == Init /\ [][NextCodec]_vars

\* The command server receives one whole request of a register client.
RegsRequest ==
  /\ cmdIsClientConnected
  /\ cmdLink = "up"
  /\ cmdWire = << >>
  /\ \E req \in RegRequests :
       /\ cmdServerReceive(req, FALSE, FALSE)
       /\ inflight' = [sent |-> req, dispatched |-> 1, effects |-> 0]
  /\ UNCHANGED << cmdWire >>
  /\ UNCHANGED << tcpVars, arbVars, bleVars >>
  /\ UNCHANGED << pollStarts >>
  /\ ClientEvent

NextRegs ==
  \/ cmdServerAccept
  \/ RegsRequest
  \/ CmdPeerDrop
  \/ cmdServerReceiveFail
  \/ ArbSample
  \/ ArbPolling
  \/ ArbIdle

SpecRegs == Init /\ [][NextRegs]_vars

(***************************************************************************)
(* The packet codec on its own: a packet built by a client is handed to    *)
(* each parser of the repository.                                          *)
(***************************************************************************)
\* Longest data string enumerated in full.
MaxDataLen == 2

RECURSIVE StringsUpTo(_, _)
StringsUpTo(alphabet, n) ==
  IF n = 0 THEN { << >> }
  ELSE LET shorter == StringsUpTo(alphabet, n - 1)
       IN shorter \cup { Append(s, c) : s \in shorter, c \in alphabet }

\* Data strings: every string over four bytes up to MaxDataLen, one as long
\* as the data field of the firmware parser (CP_DATA_FIELD_LEN) and one a
\* byte shorter.
PacketData ==
  StringsUpTo({ "0", "F", "#", " " }, MaxDataLen)
    \cup { [i \in 1 .. n |-> "0"] :
             n \in { CP_DATA_FIELD_LEN - 1, CP_DATA_FIELD_LEN } }

\* Int(lengthStr, radix: 16) of Swift: an optional sign, then hex digits
\* only; anything else is nil.
SwiftInt16(s) ==
  LET digits == IF s # << >> /\ Head(s) \in {"-", "+"} THEN Tail(s) ELSE s
      ok == digits # << >> /\ \A i \in 1 .. Len(digits) : IsHexChar(digits[i])
      v == HexRun(digits, 0)
  IN [ok |-> ok,
      val |-> IF ~ok THEN 0 ELSE IF Head(s) = "-" THEN 0 - v ELSE v]

\* parseInt(lengthStr, 16) of JavaScript: leading blanks skipped, an
\* optional sign and 0X prefix, then the longest run of hex digits; NaN
\* when the run is empty.
JsParseInt16(s) ==
  LET s0 == SkipBlanks(s)
      neg == s0 # << >> /\ Head(s0) = "-"
      s1 == IF s0 # << >> /\ Head(s0) \in {"-", "+"} THEN Tail(s0) ELSE s0
      s2 == IF Len(s1) >= 2 /\ s1[1] = "0" /\ s1[2] = "X"
            THEN Tail(Tail(s1)) ELSE s1
      ok == s2 # << >> /\ IsHexChar(Head(s2))
      v == HexRun(s2, 0)
  IN [ok |-> ok, val |-> IF ~ok THEN 0 ELSE IF neg THEN 0 - v ELSE v]

SWIFT_MAX_PAYLOAD == 15000
JS_MAX_PAYLOAD == 1000

NoPacket == [ok |-> FALSE, command |-> << >>, data |-> << >>, total |-> 0]

\* ThermalProtocol.parsePacket: (command, data, totalLength) or nil.
parsePacket(bytes) ==
  IF Len(bytes) < 12 \/ SubSeq(bytes, 1, 4) # Marker THEN NoPacket
  ELSE LET payloadLen == SwiftInt16(SubSeq(bytes, 5, 8))
           totalPacketLen == 4 + 4 + payloadLen.val
           dataEnd == 8 + payloadLen.val - 4
       IN IF ~payloadLen.ok \/ payloadLen.val < 8
               \/ payloadLen.val > SWIFT_MAX_PAYLOAD
               \/ Len(bytes) < totalPacketLen
          THEN NoPacket
          ELSE [ok |-> TRUE,
                command |-> SubSeq(bytes, 9, 12),
                data |-> SubSeq(bytes, 13, dataEnd),
                total |-> totalPacketLen]

\* processProtocolPacket of the bridge: { consumed, command } or null; the
\* data is the slice it hands to the RRSE and RREG handlers.
processProtocolPacket(buffer) ==
  IF Len(buffer) < 8 THEN NoPacket
  ELSE LET payloadLen == JsParseInt16(SubSeq(buffer, 5, 8))
           totalPacketLen == 4 + 4 + payloadLen.val
       IN IF ~payloadLen.ok \/ payloadLen.val < 8
               \/ payloadLen.val > JS_MAX_PAYLOAD
               \/ Len(buffer) < totalPacketLen
          THEN NoPacket
          ELSE [ok |-> TRUE,
                command |-> SubSeq(buffer, 9, 12),
                data |-> SubSeq(buffer, 13, 8 + payloadLen.val - 4),
                total |-> totalPacketLen]

\* A client has built one packet.
InitPacket ==
  /\ app_main
  /\ \E c \in { CMD_WREG, CMD_RRSE, CMD_WSID }, d \in PacketData :
       inflight = [sent |-> buildPacket(c, d), command |-> c, data |-> d]

codecFrame ==
  << sensorVars, cmdVars, tcpVars, arbVars, bleVars,
     b1Write, pollStarts, inflight, clientEvents >>

\* The app parses the packet.
AppParse ==
  /\ ev' = [kind |-> "parsePacket", packet |-> parsePacket(inflight.sent)]
  /\ UNCHANGED codecFrame

\* The bridge parses the packet.
BridgeParse ==
  /\ ev' = [kind |-> "processProtocolPacket",
            packet |-> processProtocolPacket(inflight.sent)]
  /\ UNCHANGED codecFrame

\* The firmware parses the packet with a freshly initialised parser.
FirmwareParse ==
  /\ \E p \in { cmdParser_PharseCmd(cmdParser_Init, inflight.sent) } :
       ev' = [kind |-> "cmdParser_PharseCmd",
              packet |-> [ok |-> p.done /\ p.ret = 0,
                          command |-> CStr(p.ph.mCmd),
                          data |-> p.ph.mData,
                          total |-> p.consumed]]
  /\ UNCHANGED codecFrame

NextPacket ==
  \/ AppParse
  \/ BridgeParse
  \/ FirmwareParse

SpecPacket == InitPacket /\ [][NextPacket]_vars

(***************************************************************************)
(* The quadrant registers on their own: start-up from a persisted store,   *)
(* register writes, restarts.                                              *)
(***************************************************************************)
\* Largest number of register writes in one run.
MaxQuadWrites == 2

\* Stores a start-up can find: no key, the split keys at their limits,
\* above them, and the burner keys absent or holding a byte no write
\* stores.
PersistedStores ==
  { [k \in NvsKeys |-> IF k = "xsplit" THEN s[1]
                       ELSE IF k = "ysplit" THEN s[2] ELSE b] :
      s \in { << NvsAbsent, NvsAbsent >>, << 0, 0 >>,
              << SENXOR_FRAME_WIDTH, SENXOR_FRAME_HEIGHT >>,
              << SENXOR_FRAME_WIDTH + 1, SENXOR_FRAME_HEIGHT + 1 >>,
              << 255, 1 >> },
      b \in { NvsAbsent, 200 } }

\* The addresses of the registers quadrant_Calculate writes.
ComputedRegs == (REG_XSPLIT + 2 .. REG_XSPLIT + 9) \cup { 204, 207, 210, REG_DBURNERT }

\* Addresses and values of the writes: every quadrant register, the two
\* splits, the eight burner coordinates and the twelve read-only ones; a
\* read-only register is written with the value 79.
QuadWriteAddrs == REG_XSPLIT .. REG_DBURNERT

QuadWriteValues ==
  { 0, DEFAULT_YSPLIT, SENXOR_FRAME_HEIGHT - 1, SENXOR_FRAME_WIDTH - 1,
    SENXOR_FRAME_WIDTH, 255 }

InitQuad ==
  /\ \E store \in PersistedStores : Boot(store)
  /\ inflight = NoRequest

quadFrame ==
  << regB1, cmdVars, tcpVars, arbVars, bleVars, b1Write, pollStarts, inflight >>

\* The parser object after a WREG of value to regAddr was received.
WregParsed ==
  [regAddr \in QuadWriteAddrs, value \in QuadWriteValues |->
     cmdParser_PharseCmd(cmdParser_Init, buildWREG(regAddr, value)).ph]

\* The dispatch of a WREG to a quadrant register: cmdParser_CommitCmd calls
\* quadrant_WriteRegister(regAddr, value) and builds the acknowledgement.
QuadWrite ==
  /\ clientEvents < MaxQuadWrites
  /\ \E regAddr \in QuadWriteAddrs, value \in QuadWriteValues :
     \E c \in { cmdParser_CommitCmd(WregParsed[regAddr, value],
                                     tcpIsClientConnected) } :
     \E w \in { QuadrantAfter(c.op) } :
       /\ regAddr \in ComputedRegs => value = SENXOR_FRAME_WIDTH - 1
       /\ mQuadrantData' = w.q
       /\ nvs' = w.nvs
       /\ ev' = [kind |-> "quadrant_WriteRegister", regAddr |-> regAddr,
                 value |-> value, size |-> c.size, ack |-> c.ack]
  /\ clientEvents' = clientEvents + 1
  /\ UNCHANGED quadFrame

\* A restart: quadrant_Init loads the registers from the store.
Restart ==
  /\ mQuadrantData' = quadrant_Init(nvs)
  /\ ev' = [kind |-> "quadrant_Init", regAddr |-> 0, value |-> 0,
            size |-> 0, ack |-> << >>]
  /\ UNCHANGED << nvs, clientEvents >>
  /\ UNCHANGED quadFrame

NextQuad ==
  \/ QuadWrite
  \/ Restart

SpecQuad == InitQuad /\ [][NextQuad]_vars

(***************************************************************************)
(* Broadcast encoder of the firmware and the decoder of the clients.        *)
(***************************************************************************)
COMBUSTION_TEMP_MAX_RAW == 8191

RECURSIVE Pow2(_)

\* Variant: the input is taken as a raw register value and calibrated,
\* c = r * 0.0984 - 265.82, before (c + 20) / 0.05 is rounded and clamped.
EncodeTempCalibrated(r) ==
  LET num == 984 * r - 2458200
  IN IF num <= 0 THEN 0
     ELSE IF (2 * num + 500) \div 1000 > COMBUSTION_TEMP_MAX_RAW
     THEN COMBUSTION_TEMP_MAX_RAW
     ELSE (2 * num + 500) \div 1000

\* combustionBle_EncodeTemp(temp_mk): the input is taken as millikelvin,
\* (temp_mk / 1000 - 273.15 + 20) / 0.05, clamped to [0, 0x1FFF] and cut to
\* an integer by the cast.  In thousandths of a degree the quotient is
\* (temp_mk - 273150 + 20000) / 50; it is negative for every 16-bit input.
combustionBle_EncodeTemp(temp_mk) ==
  LET milli == temp_mk - 273150 + 20000
  IN IF milli < 0 THEN 0
     ELSE IF milli \div 50 > COMBUSTION_TEMP_MAX_RAW
     THEN COMBUSTION_TEMP_MAX_RAW
     ELSE milli \div 50

Pow2(n) == IF n = 0 THEN 1 ELSE 2 * Pow2(n - 1)

\* val & (1 << b), as 0 or 1.
BitOf(val, b) == (val \div Pow2(b)) % 2

RECURSIVE PackedByte(_, _, _)

\* Variant: each value is written least significant bit first.
PackedBitLsbFirst(encoded_temps, bit_pos) ==
  BitOf(encoded_temps[bit_pos \div 13 + 1], bit_pos % 13)

\* The bit the loops of combustionBle_PackTemps write at bit_pos: value
\* bit_pos / 13, bits b = 12 down to 0.
PackedBit(encoded_temps, bit_pos) ==
  BitOf(encoded_temps[bit_pos \div 13 + 1], 12 - (bit_pos % 13))

PackedByte(encoded_temps, byte_idx, bit_in_byte) ==
  IF bit_in_byte < 0 THEN 0
  ELSE PackedBit(encoded_temps, byte_idx * 8 + (7 - bit_in_byte))
         * Pow2(bit_in_byte)
       + PackedByte(encoded_temps, byte_idx, bit_in_byte - 1)

\* combustionBle_PackTemps(encoded_temps, output): 13 bytes.
combustionBle_PackTemps(encoded_temps) ==
  [k \in 1 .. 13 |-> PackedByte(encoded_temps, k - 1, 7)]

\* rawValue of one iteration of decodeTemperatures: 13 bits from
\* bitPosition, the first read being bit 12.
RECURSIVE DecodedRaw(_, _, _)
DecodedRaw(data, bitPosition, bit) ==
  IF bit > 12 THEN 0
  ELSE BitOf(data[(bitPosition + bit) \div 8 + 1],
             7 - ((bitPosition + bit) % 8)) * Pow2(12 - bit)
       + DecodedRaw(data, bitPosition, bit + 1)

\* decodeTemperatures(from: data): the eight raw values and their Celsius
\* values rawValue * 0.05 - 20, held in hundredths of a degree.
decodeTemperatures(data) ==
  IF Len(data) < 13 THEN [raw |-> << >>, centi |-> << >>]
  ELSE [raw |-> [i \in 1 .. 8 |-> DecodedRaw(data, 13 * (i - 1), 0)],
        centi |-> [i \in 1 .. 8 |->
                     DecodedRaw(data, 13 * (i - 1), 0) * 5 - 2000]]

\* Values handed over as temperatures: raw pixel values of the sensor and
\* the corner cases of 13 and 16 bits.
TempInputs ==
  LET values == { 0, 1, 3000, SamplePixel, 5461, COMBUSTION_TEMP_MAX_RAW,
                  65535 }
  IN
  { [i \in 1 .. 8 |-> IF i % 2 = 1 THEN a ELSE b] :
      a \in values, b \in values }
    \cup { << 4096, 1, COMBUSTION_TEMP_MAX_RAW, 0, 5461, 2730, SamplePixel,
              3000 >> }

\* quadrant_Calculate has handed eight register values to
\* combustionBle_UpdateTemps.
InitBle ==
  /\ app_main
  /\ \E temps \in TempInputs : inflight = [temps |-> temps]

\* combustionBle_UpdateTemps: combustionBle_UpdateAdvData encodes
\* mState.temps and packs the result into bytes 7..19 of the manufacturer
\* data, then combustionBle_SendNotifications notifies the subscribers.
combustionBle_UpdateAdvData ==
  /\ \E encoded \in { [i \in 1 .. 8 |->
                          combustionBle_EncodeTemp(inflight.temps[i])] } :
       ev' = [kind |-> "UpdateAdvData", encoded |-> encoded,
              payload |-> combustionBle_PackTemps(encoded),
              notified |-> combustionBle_SendNotifications]
  /\ UNCHANGED codecFrame

\* combustionBle_PackTemps applied to the eight values themselves.
PackTemps ==
  /\ ev' = [kind |-> "PackTemps", encoded |-> inflight.temps,
            payload |-> combustionBle_PackTemps(inflight.temps)]
  /\ UNCHANGED codecFrame

\* A client decodes the 13 bytes it received.
DecodeTemps ==
  /\ ev.kind \in { "UpdateAdvData", "PackTemps" }
  /\ \E d \in { decodeTemperatures(ev.payload) } :
       ev' = [kind |-> "decodeTemperatures", from |-> ev.kind,
              encoded |-> ev.encoded, payload |-> ev.payload,
              raw |-> d.raw, centi |-> d.centi]
  /\ UNCHANGED codecFrame

NextBle ==
  \/ BleConnect
  \/ BleDisconnect
  \/ BleWriteCccd
  \/ combustionBle_UpdateAdvData
  \/ PackTemps
  \/ DecodeTemps

SpecBle == InitBle /\ [][NextBle]_vars

(***************************************************************************)
(* Properties.                                                             *)
(***************************************************************************)
\* A pass of the arbiter loop from the sampled signals to the end of its
\* branch.
ArbPass == arbPc = "act" /\ arbPc' = "sample"

NoConsumer ==
  /\ ~tcpIsClientConnected
  /\ pollFreqHz = 0
  /\ connected_count = 0

\* C1: when no consumer signal is active and the arbiter has just completed
\* an Idle pass, 0xB1 holds 0x00 (a value a client wrote to 0xB1 with WREG is
\* left out of the statement).
C1_IdleStopsSensor ==
  (ev.kind = "arbTick" /\ ev.mode = "Idle" /\ NoConsumer
     /\ b1Write.cause # "WREG")
    => regB1 = B1_STOP

\* C2: a receive that returns a proper prefix of a well-formed request
\* dispatches nothing, has no side effect and sends no response.
C2_PrefixIsIncomplete ==
  (ev.kind = "cmdRx" /\ ev.partial /\ WellFormed(inflight.sent))
    => (ev.size = 0 /\ ev.op = "none" /\ inflight.dispatched = 0)

\* C3: a request whose CRC field is neither XXXX nor the additive sum is
\* rejected: no side effect and no response.
C3_BadCrcRejected ==
  (ev.kind = "cmdRx" /\ ev.ret = 0 - 1 /\ ~WellFormed(inflight.sent))
    => (ev.size = 0 /\ ev.op = "none")

AllowedB1Writes ==
  { B1Write("senxorInit", "init"),
    B1Write("senxorTask", "pollStart"),
    B1Write("senxorTask", "idleStop"),
    B1Write("tcpServerTask", "accept"),
    B1Write("tcpServerRecvTask", "accept"),
    B1Write("tcpServerTask", "sendError"),
    B1Write("tcpServerRecvTask", "sendError"),
    B1Write("tcpServerRecvTask", "readError"),
    B1Write("tcpServerRecvTask", "received"),
    B1Write("cmdServerTask", "WREG"),
    B1Write("tcpServerRecvTask", "WREG") }

C5_StreamingGoverns ==
  [][ /\ (ArbPass /\ sampled.frame
            => /\ ev'.mode = "Streaming"
               /\ ev'.b1 = "none"
               /\ regB1' = regB1
               /\ pollStarts' = 0
               /\ ev'.acquired = CaptureEnabled(regB1))
      /\ (senxorFrameQueue' > senxorFrameQueue => ArbPass /\ sampled.frame)
      /\ (ev'.pushed => ev'.mode = "Streaming") ]_vars

C5_Witness ==
  /\ ev.kind = "arbTick"
  /\ ev.mode = "Streaming"
  /\ ev.pushed
  /\ pollFreqHz > 0
  /\ cmdIsClientConnected

\* C6: in Polling, an acquisition follows the previous one by at least
\* 1000/f milliseconds, f the poll frequency or 25 when it is 0.
C6_PollingRateGate ==
  [][ (ArbPass /\ ev'.mode = "Polling" /\ pollCaptureStarted /\ ev'.acquired)
        => pollAge * (1000 \div configTICK_RATE_HZ)
             >= 1000 \div EffectiveFreq(sampled.poll) ]_vars

\* C7: a pass that sampled a subscriber and no frame client runs the Polling
\* branch, and over a stay in Polling the start command is issued exactly
\* once, in its first pass.
C7_PollingStartsOnce ==
  [][ ArbPass =>
        /\ (sampled.ble /\ ~sampled.frame => ev'.mode = "Polling")
        /\ (ev'.mode = "Polling" =>
              /\ pollStarts' = 1
              /\ pollCaptureStarted'
              /\ (pollCaptureStarted => ev'.b1 = "none" /\ regB1' = regB1)
              /\ (~pollCaptureStarted =>
                    ev'.b1 = "pollStart" /\ regB1' = B1_START)) ]_vars

C7_Witness ==
  /\ ev.kind = "arbTick"
  /\ ev.mode = "Polling"
  /\ ev.b1 = "none"
  /\ pollStarts = 1
  /\ connected_count = 1
  /\ pollFreqHz = 0
  /\ ~tcpIsClientConnected

\* C8: a disconnect of the command channel (read error, read of 0 bytes,
\* failed send) leaves the poll frequency 0; it is 0 whenever no command
\* client is connected and becomes nonzero only by an accepted POLL; a pass
\* that sampled no frame client, no subscriber and poll frequency 0 is Idle.
C8_PollResetOnCmdDisconnect ==
  [][ /\ (cmdIsClientConnected /\ ~cmdIsClientConnected' => pollFreqHz' = 0)
      /\ (~cmdIsClientConnected' => pollFreqHz' = 0)
      /\ (pollFreqHz' # pollFreqHz /\ pollFreqHz' > 0
            => ev'.cmd = CMD_POLL /\ ev'.op = "poll")
      /\ (ArbPass /\ ~sampled.frame /\ ~sampled.ble /\ sampled.poll = 0
            => ev'.mode = "Idle" /\ ~pollCaptureStarted') ]_vars

C8_Witness ==
  /\ ev.kind \in {"cmdReadFail", "cmdRx"}
  /\ ev.disc
  /\ ev.pollBefore > 0
  /\ pollFreqHz = 0
  /\ ~cmdIsClientConnected

C10_PollRejectedWhileStreaming ==
  [][ (ev'.kind = "cmdRx" /\ ev'.cmd = CMD_POLL /\ tcpIsClientConnected)
        => /\ ev'.size = 0
           /\ ev'.op = "none"
           /\ pollFreqHz' = pollFreqHz
           /\ cmdIsClientConnected' ]_vars

C10_Witness ==
  /\ ev.kind = "cmdRx"
  /\ ev.cmd = CMD_POLL
  /\ tcpIsClientConnected
  /\ ev.size = 0
  /\ ev.pollBefore > 0
  /\ pollFreqHz = ev.pollBefore


\* C11: a pass that follows a Polling pass and sampled no frame client, poll
\* frequency 0 and no subscriber is an Idle pass that writes the stop value
\* to 0xB1; an Idle pass that follows an Idle pass writes nothing to the
\* sensor and acquires no frame.
C11_IdleStopsOnce ==
  [][ ArbPass =>
        /\ (pollCaptureStarted /\ ~sampled.frame /\ sampled.poll = 0
               /\ ~sampled.ble
             => /\ ev'.mode = "Idle"
                /\ ev'.b1 = "idleStop"
                /\ regB1' = B1_STOP
                /\ b1Write' = B1Write("senxorTask", "idleStop")
                /\ ~pollCaptureStarted')
        /\ (ev'.mode = "Idle" /\ ~pollCaptureStarted
             => /\ ev'.b1 = "none"
                /\ regB1' = regB1
                /\ b1Write' = b1Write
                /\ ~ev'.acquired
                /\ ~pollCaptureStarted') ]_vars

C11_Witness ==
  /\ ev.kind = "arbTick"
  /\ ev.mode = "Idle"
  /\ ev.b1 = "idleStop"
  /\ regB1 = B1_STOP
  /\ NoConsumer


\* C12: a failed write on the frame socket leaves isClientConnected false and
\* 0xB1 holding the stop value, with the failing task not yet in accept; no
\* other step of a send changes either.
C12_SendFailureStops ==
  [][ /\ (ev'.kind = "frameSendFail"
            => /\ ~tcpIsClientConnected'
               /\ regB1' = B1_STOP
               /\ ev'.b1 = "sendError"
               /\ b1Write'.cause = "sendError"
               /\ frameLink' = "none"
               /\ (pushPc' = "restart" \/ recvPc' = "ackRestart"))
      /\ (b1Write'.cause = "sendError" /\ b1Write' # b1Write
            => ev'.kind = "frameSendFail") ]_vars

C12_Witness ==
  /\ ev.kind = "frameSendFail"
  /\ b1Write = B1Write("tcpServerTask", "sendError")
  /\ pushPc = "restart"
  /\ ~tcpIsClientConnected
  /\ regB1 = B1_STOP


\* The address list of an RRSE request as its sender wrote it: the data
\* bytes before the terminator FF, two hexadecimal digits per address.
RECURSIVE AddressesOf(_)
AddressesOf(data) ==
  IF Len(data) < 2 THEN << >>
  ELSE << toHex(SubSeq(data, 1, 2)) >> \o AddressesOf(SubSeq(data, 3, Len(data)))

RequestAddresses(r) == AddressesOf(SubSeq(r, 13, Len(r) - 6))

\* The payload the register list calls for: each address followed by its
\* value, four digits for 0xC0..0xD5 and two digits for any other address.
RECURSIVE ListedValues(_)
ListedValues(addrs) ==
  IF addrs = << >> THEN << >>
  ELSE LET a == Head(addrs)
       IN Hex2(a)
            \o (IF a >= REG_XSPLIT /\ a <= REG_DBURNERT
                THEN Hex4(quadrant_ReadRegister(a))
                ELSE Hex2(Acces_Read_Reg(a)))
            \o ListedValues(Tail(addrs))

\* C13: the response to a dispatched RRSE request is the marker, the length
\* field 8 + the sum of the per-address widths, RRSE, then each listed
\* address followed by its value in request order, then four CRC bytes.
C13_RrseResponse ==
  (ev.kind = "cmdRx" /\ ev.cmd = CMD_RRSE /\ inflight.sent \in RegRequests)
    => LET payload == ListedValues(RequestAddresses(inflight.sent))
       IN /\ Len(ev.ack) = 16 + Len(payload)
          /\ SubSeq(ev.ack, 1, 12 + Len(payload))
               = Marker \o Hex4(8 + Len(payload)) \o CMD_RRSE \o payload


\* C14: every response handed to write() starts with the marker, and the
\* number of bytes written for it is 8 + its length field read as
\* hexadecimal (the command, the data and the CRC make up the length).
C14_ResponsePacket ==
  (ev.kind = "cmdRx" /\ ev.size > 0)
    => /\ SubSeq(ev.ack, 1, 4) = Marker
       /\ SubSeq(ev.ack, 9, 12) \in KnownCommands
       /\ Len(ev.ack) = ev.size
       /\ ev.size = 8 + toHex(SubSeq(ev.ack, 5, 8))


\* What buildPacket put into the packet in flight.
Recovered(packet) ==
  /\ packet.ok
  /\ packet.command = inflight.command
  /\ packet.data = inflight.data
  /\ packet.total = 8 + (Len(inflight.command) + Len(inflight.data) + 4)

LengthFieldRejected(r) ==
  LET f == SubSeq(r, 5, 8)
  IN \/ \E i \in 1 .. 4 : ~IsHexChar(f[i])
     \/ HexRun(f, 0) < 8
     \/ HexRun(f, 0) > JS_MAX_PAYLOAD

\* C16: a packet whose length field is not hexadecimal or lies outside
\* [8, 1000] is rejected by the server: nothing is dispatched for it and
\* no response is sent.
C16_BadLengthRejected ==
  (ev.kind = "cmdRx" /\ LengthFieldRejected(inflight.sent))
    => /\ ev.op = "none"
       /\ ev.size = 0


\* A request as buildPacket frames it: marker, length field counting the
\* command, the data and the CRC, and a CRC the parser accepts.
WellFramed(r) ==
  /\ Len(r) >= 16
  /\ SubSeq(r, 1, 4) = Marker
  /\ SubSeq(r, 5, 8) = Hex4(Len(r) - 8)
  /\ WellFormed(r)

\* C17: the command server receiving a well-framed request whose command
\* is none of WREG, RREG, RRSE, POLL sends no byte, leaves the registers,
\* the stored configuration, the poll frequency and the capture state as
\* they were, and keeps the connection.
C17_UnknownCommandIgnored ==
  [][ (ev'.kind = "cmdRx" /\ WellFramed(inflight'.sent)
         /\ SubSeq(inflight'.sent, 9, 12) \notin KnownCommands)
        => /\ ev'.size = 0
           /\ ev'.ack = << >>
           /\ UNCHANGED << sensorVars, pollFreqHz, pollCaptureStarted >>
           /\ UNCHANGED << cmdIsClientConnected, cmdLink >>
           /\ cmdIsClientConnected ]_vars

C17_Witness ==
  /\ ev.kind = "cmdRx"
  /\ inflight.sent = buildPacket(CMD_WSID, << "A", "B" >>)
  /\ ev.size = 0
  /\ pollFreqHz = 5
  /\ cmdIsClientConnected


\* C18: a read of 0xE0+i by RREG or RRSE returns byte i of the device
\* identity (the Bluetooth MAC address), most significant byte first, as a
\* two-digit value.
C18_DeviceIdRead ==
  /\ \A i \in 0 .. 5 :
       (ev.kind = "cmdRx" /\ inflight.sent = buildRREG(REG_DEVID0 + i))
         => SubSeq(ev.ack, 9, 14) = CMD_RREG \o Hex2(mDeviceId[i + 1])
  /\ (ev.kind = "cmdRx"
        /\ inflight.sent = buildRRSE(<< REG_DEVID0, REG_DEVID5 >>))
       => SubSeq(ev.ack, 9, 20)
            = CMD_RRSE \o Hex2(REG_DEVID0) \o Hex2(mDeviceId[1])
                \o Hex2(REG_DEVID5) \o Hex2(mDeviceId[6])


\* round((c + 20.0) / 0.05) clamped to [0, 8191] for c = r * 0.0984 - 265.82:
\* in ten-thousandths of a degree the quotient is (984 r - 2458200) / 500.
CalibratedEncoding(r) ==
  LET num == 984 * r - 2458200
  IN IF num <= 0 THEN 0
     ELSE IF (2 * num + 500) \div 1000 > COMBUSTION_TEMP_MAX_RAW
     THEN COMBUSTION_TEMP_MAX_RAW
     ELSE (2 * num + 500) \div 1000

\* C19: every 13-bit value placed in the payload is the calibrated Celsius
\* temperature of the raw register value, (c + 20) / 0.05 rounded and
\* clamped to [0, 8191].
C19_EncodesCalibratedCelsius ==
  ev.kind = "UpdateAdvData"
    => \A i \in 1 .. 8 : ev.encoded[i] = CalibratedEncoding(inflight.temps[i])

BurnerCoords ==
  { << 202, "Aburnerx", "aburnerx", "Xsplit", SENXOR_FRAME_WIDTH, TRUE >>,
    << 203, "Aburnery", "aburnery", "Ysplit", SENXOR_FRAME_HEIGHT, TRUE >>,
    << 205, "Bburnerx", "bburnerx", "Xsplit", SENXOR_FRAME_WIDTH, FALSE >>,
    << 206, "Bburnery", "bburnery", "Ysplit", SENXOR_FRAME_HEIGHT, TRUE >>,
    << 208, "Cburnerx", "cburnerx", "Xsplit", SENXOR_FRAME_WIDTH, TRUE >>,
    << 209, "Cburnery", "cburnery", "Ysplit", SENXOR_FRAME_HEIGHT, FALSE >>,
    << 211, "Dburnerx", "dburnerx", "Xsplit", SENXOR_FRAME_WIDTH, FALSE >>,
    << 212, "Dburnery", "dburnery", "Ysplit", SENXOR_FRAME_HEIGHT, FALSE >> }

\* Bounds of a burner coordinate under the split value s.
BurnerLo(b, s) == IF b[6] THEN 0 ELSE s
BurnerHi(b, s) == IF b[6] THEN s - 1 ELSE b[5] - 1

\* The nearest value to v inside [lo, hi].
Nearest(v, lo, hi) == IF v < lo THEN lo ELSE IF v > hi THEN hi ELSE v

WregAck ==
  Marker \o << "0", "0", "0", "8" >> \o CMD_WREG
    \o << "0", "1", "F", "D", NUL >>

\* C23: a write to Xsplit of a value above the frame width, or to Ysplit
\* of a value above the image height, leaves every register and the
\* persistent store as they were and is acknowledged like any other write.
C23_SplitAboveRangeIgnored ==
  [][ (/\ ev'.kind = "quadrant_WriteRegister"
       /\ \/ ev'.regAddr = REG_XSPLIT /\ ev'.value > SENXOR_FRAME_WIDTH
          \/ ev'.regAddr = REG_YSPLIT /\ ev'.value > SENXOR_FRAME_HEIGHT)
        => /\ UNCHANGED << mQuadrantData, nvs >>
           /\ ev'.size = 17
           /\ ev'.ack = WregAck ]_vars

C23_Witness ==
  /\ ev.kind = "quadrant_WriteRegister"
  /\ ev.regAddr = REG_YSPLIT
  /\ ev.value = SENXOR_FRAME_WIDTH - 1
  /\ mQuadrantData.Ysplit = SENXOR_FRAME_HEIGHT - 1
  /\ nvs["ysplit"] = SENXOR_FRAME_HEIGHT - 1


\* C24: Xsplit is in [0, 80] and Ysplit in [0, 62] after start-up from any
\* store and after any writes; a persisted split value outside the range
\* is replaced on load by its default, 40 or 31.
C24_SplitsInRange ==
  /\ mQuadrantData.Xsplit \in 0 .. SENXOR_FRAME_WIDTH
  /\ mQuadrantData.Ysplit \in 0 .. SENXOR_FRAME_HEIGHT
  /\ (ev.kind \in { "none", "quadrant_Init" }
        /\ nvs["xsplit"] \notin 0 .. SENXOR_FRAME_WIDTH)
       => mQuadrantData.Xsplit = DEFAULT_XSPLIT
  /\ (ev.kind \in { "none", "quadrant_Init" }
        /\ nvs["ysplit"] \notin 0 .. SENXOR_FRAME_HEIGHT)
       => mQuadrantData.Ysplit = DEFAULT_YSPLIT

C24_Witness ==
  /\ ev.kind = "quadrant_Init"
  /\ nvs["xsplit"] = 255
  /\ nvs["ysplit"] = 0
  /\ mQuadrantData.Xsplit = DEFAULT_XSPLIT
  /\ mQuadrantData.Ysplit = 0

MaxFrames == 2

\* A frame is given by the value of its header words, the value of its image
\* pixels, and one image pixel (hot, at column hot[1] and image row hot[2])
\* holding hv.
HEADER_ROWS == 2
WarmPixel == 100
HotPixels ==
  { << 0, 0 >>, << DEFAULT_XSPLIT - 1, DEFAULT_YSPLIT >>,
    << SENXOR_FRAME_WIDTH - 1, SENXOR_FRAME_HEIGHT - 1 >> }
Frames ==
  { [hdr |-> Pow16(4) - 1, bg |-> b, hot |-> h, hv |-> SamplePixel] :
      b \in { 0, WarmPixel }, h \in HotPixels }
    \cup { [hdr |-> Pow16(4) - 1, bg |-> SamplePixel, hot |-> << 0, 0 >>,
            hv |-> SamplePixel] }
BlankFrame == [hdr |-> 0, bg |-> 0, hot |-> << 0, 0 >>, hv |-> 0]

\* frameData[index]
frameData(frame, index) ==
  IF index < HEADER_ROWS * SENXOR_FRAME_WIDTH THEN frame.hdr
  ELSE IF index = (frame.hot[2] + HEADER_ROWS) * SENXOR_FRAME_WIDTH + frame.hot[1]
  THEN frame.hv
  ELSE frame.bg

\* const uint16_t* imageData = frameData + (2 * SENXOR_FRAME_WIDTH);
imageData(frame, index) == frameData(frame, index + HEADER_ROWS * SENXOR_FRAME_WIDTH)

\* Variant of QuadrantOf: the split column and row belong to the left and
\* the top quadrants.
QuadrantOfInclusive(x, y, xsplit, ysplit) ==
  IF x <= xsplit /\ y <= ysplit THEN "A"
  ELSE IF x > xsplit /\ y <= ysplit THEN "B"
  ELSE IF x <= xsplit /\ y > ysplit THEN "C"
  ELSE "D"

\* The if-chain of the scan: the quadrant whose maximum the pixel (x, y)
\* is compared with.
QuadrantOf(x, y, xsplit, ysplit) ==
  IF x < xsplit /\ y < ysplit THEN "A"
  ELSE IF x >= xsplit /\ y < ysplit THEN "B"
  ELSE IF x < xsplit /\ y >= ysplit THEN "C"
  ELSE "D"

MaxOf(S) == CHOOSE m \in S : \A n \in S : n <= m

\* The four local maxima after the scan has passed the image rows below
\* rows: each starts at 0 and is raised by every larger pixel of its
\* quadrant.
ScanRows(frame, xsplit, ysplit, rows) ==
  LET seen == { << QuadrantOf(x, y, xsplit, ysplit),
                   imageData(frame, y * SENXOR_FRAME_WIDTH + x) >> :
                  x \in 0 .. SENXOR_FRAME_WIDTH - 1, y \in 0 .. rows - 1 }
      MaxIn(k) == MaxOf({ 0 } \cup { p[2] : p \in { s \in seen : s[1] = k } })
  IN [Amax |-> MaxIn("A"), Bmax |-> MaxIn("B"),
      Cmax |-> MaxIn("C"), Dmax |-> MaxIn("D")]

\* The stores whose burner coordinates come from the defaults, and the split
\* pairs quadrant_Init loads from them.
FrameStores == { s \in PersistedStores : s["aburnerx"] = NvsAbsent }
SplitPairs ==
  { << quadrant_Init(s).Xsplit, quadrant_Init(s).Ysplit >> : s \in FrameStores }
HalfRows == SENXOR_FRAME_HEIGHT \div 2
FrameScan ==
  [f \in Frames \cup { BlankFrame }, s \in SplitPairs,
   rows \in { HalfRows, SENXOR_FRAME_HEIGHT } |-> ScanRows(f, s[1], s[2], rows)]

\* if (Acx >= SENXOR_FRAME_WIDTH) Acx = SENXOR_FRAME_WIDTH - 1; ...
ClampCenter(c, dim) == IF c >= dim THEN dim - 1 ELSE c

\* The value one of the twelve closing stores writes: a local maximum, the
\* pixel at the centre of a quadrant, or the pixel at a burner coordinate.
StoreOrder ==
  << "Amax", "Acenter", "Bmax", "Bcenter", "Cmax", "Ccenter", "Dmax",
     "Dcenter", "Aburnert", "Bburnert", "Cburnert", "Dburnert" >>
StoreValue(field, q, frame, locals) ==
  LET lowx == ClampCenter(q.Xsplit \div 2, SENXOR_FRAME_WIDTH)
      lowy == ClampCenter(q.Ysplit \div 2, SENXOR_FRAME_HEIGHT)
      highx == ClampCenter(q.Xsplit + (SENXOR_FRAME_WIDTH - q.Xsplit) \div 2,
                           SENXOR_FRAME_WIDTH)
      highy == ClampCenter(q.Ysplit + (SENXOR_FRAME_HEIGHT - q.Ysplit) \div 2,
                           SENXOR_FRAME_HEIGHT)
      at(x, y) == imageData(frame, y * SENXOR_FRAME_WIDTH + x)
  IN CASE field \in { "Amax", "Bmax", "Cmax", "Dmax" } -> locals[field]
       [] field = "Acenter" -> at(lowx, lowy)
       [] field = "Bcenter" -> at(highx, lowy)
       [] field = "Ccenter" -> at(lowx, highy)
       [] field = "Dcenter" -> at(highx, highy)
       [] field = "Aburnert" -> at(q.Aburnerx, q.Aburnery)
       [] field = "Bburnert" -> at(q.Bburnerx, q.Bburnery)
       [] field = "Cburnert" -> at(q.Cburnerx, q.Cburnery)
       [] field = "Dburnert" -> at(q.Dburnerx, q.Dburnery)

\* quadrant_Calculate(frameData) as one step: the scan, then the stores.
quadrant_CalculateFrame(q, frame) ==
  LET locals == FrameScan[frame, << q.Xsplit, q.Ysplit >>, SENXOR_FRAME_HEIGHT]
  IN [f \in DOMAIN q |->
        IF \E i \in DOMAIN StoreOrder : StoreOrder[i] = f
        THEN StoreValue(f, q, frame, locals)
        ELSE q[f]]

\* Variant of RegistersDuringScan: the running maxima are kept in the
\* registers themselves.
RegistersDuringScanRunning(q, locals) ==
  [q EXCEPT !.Amax = locals.Amax, !.Bmax = locals.Bmax,
            !.Cmax = locals.Cmax, !.Dmax = locals.Dmax]

\* uint16_t Amax = 0, Bmax = 0, Cmax = 0, Dmax = 0: the scan works on
\* locals and leaves mQuadrantData alone.
RegistersDuringScan(q, locals) == q

\* inflight holds the position of the senxor task inside quadrant_Calculate:
\* pc 0 outside, 1 in the scan, 2 .. 13 before the store StoreOrder[pc - 1];
\* prev holds mQuadrantData as it was when the call began.
InitFrame ==
  /\ \E store \in FrameStores : Boot(store)
  /\ inflight = [pc |-> 0, frame |-> BlankFrame, prev |-> mQuadrantData,
                 locals |-> [Amax |-> 0, Bmax |-> 0, Cmax |-> 0, Dmax |-> 0]]

FrameEv(kind) == [kind |-> kind, regAddr |-> 0, value |-> 0]

ScanBegin ==
  /\ inflight.pc = 0
  /\ clientEvents < MaxFrames
  /\ \E f \in Frames :
     \E l \in { FrameScan[f, << mQuadrantData.Xsplit, mQuadrantData.Ysplit >>, HalfRows] } :
       /\ inflight' = [pc |-> 1, frame |-> f, prev |-> mQuadrantData, locals |-> l]
       /\ mQuadrantData' = RegistersDuringScan(mQuadrantData, l)
  /\ clientEvents' = clientEvents + 1
  /\ ev' = FrameEv("scan")
  /\ UNCHANGED << nvs, regB1, cmdVars, tcpVars, arbVars, bleVars, b1Write, pollStarts >>

ScanEnd ==
  /\ inflight.pc = 1
  /\ \E l \in { FrameScan[inflight.frame, << mQuadrantData.Xsplit, mQuadrantData.Ysplit >>,
                          SENXOR_FRAME_HEIGHT] } :
       /\ inflight' = [inflight EXCEPT !.pc = 2, !.locals = l]
       /\ mQuadrantData' = RegistersDuringScan(mQuadrantData, l)
  /\ ev' = FrameEv("scan")
  /\ UNCHANGED << nvs, clientEvents, regB1, cmdVars, tcpVars, arbVars, bleVars, b1Write, pollStarts >>

StoreResult ==
  /\ inflight.pc >= 2
  /\ \E field \in { StoreOrder[inflight.pc - 1] } :
       mQuadrantData' =
         [mQuadrantData EXCEPT
            ![field] = StoreValue(field, mQuadrantData, inflight.frame, inflight.locals)]
  /\ inflight' = [inflight EXCEPT !.pc = IF inflight.pc = Len(StoreOrder) + 1 THEN 0
                                         ELSE inflight.pc + 1]
  /\ ev' = FrameEv("store")
  /\ UNCHANGED << nvs, clientEvents, regB1, cmdVars, tcpVars, arbVars, bleVars, b1Write, pollStarts >>

\* A register read of the command task (RREG, RRSE) at any point of the
\* computation.
QuadRead ==
  /\ \E regAddr \in ComputedRegs :
       ev' = [kind |-> "quadrant_ReadRegister", regAddr |-> regAddr,
              value |-> quadrant_ReadRegister(regAddr)]
  /\ UNCHANGED << mQuadrantData, nvs, inflight, clientEvents, regB1, cmdVars, tcpVars,
                  arbVars, bleVars, b1Write, pollStarts >>

NextFrame == ScanBegin \/ ScanEnd \/ StoreResult \/ QuadRead
SpecFrame == InitFrame /\ [][NextFrame]_vars

\* The pixels the specification assigns to a quadrant.
InQuadrant(k, x, y, xsplit, ysplit) ==
  CASE k = "A" -> x < xsplit /\ y < ysplit
    [] k = "B" -> x >= xsplit /\ y < ysplit
    [] k = "C" -> x < xsplit /\ y >= ysplit
    [] k = "D" -> x >= xsplit /\ y >= ysplit
Quadrants == { "A", "B", "C", "D" }
QuadrantPixels(k, xsplit, ysplit) ==
  (IF k \in { "A", "C" } THEN 0 .. xsplit - 1 ELSE xsplit .. SENXOR_FRAME_WIDTH - 1)
    \X (IF k \in { "A", "B" } THEN 0 .. ysplit - 1 ELSE ysplit .. SENXOR_FRAME_HEIGHT - 1)
\* The largest pixel of a quadrant of a frame, 0 for a quadrant without
\* pixels.
LargestIn(k, frame, xsplit, ysplit) ==
  IF QuadrantPixels(k, xsplit, ysplit) = { } THEN 0
  ELSE IF frame.hot \in QuadrantPixels(k, xsplit, ysplit) /\ frame.hv > frame.bg
  THEN frame.hv
  ELSE frame.bg
OnePerPixel ==
  [s \in SplitPairs |->
     \A x \in 0 .. SENXOR_FRAME_WIDTH - 1, y \in 0 .. SENXOR_FRAME_HEIGHT - 1 :
       /\ Cardinality({ k \in Quadrants : InQuadrant(k, x, y, s[1], s[2]) }) = 1
       /\ InQuadrant(QuadrantOf(x, y, s[1], s[2]), x, y, s[1], s[2])
       /\ << x, y >> \in QuadrantPixels(QuadrantOf(x, y, s[1], s[2]), s[1], s[2])]

\* C26: when quadrant_Calculate has returned, every image pixel was compared
\* with the maximum of exactly one quadrant, the one the tests x < xSplit and
\* y < ySplit select; each maximum register holds the largest pixel of its
\* quadrant (0 for a quadrant without pixels), header rows left out; a frame
\* with one maximal pixel reports it in the quadrant containing it and in no
\* other; and on a frame of equal pixels the result is that of the one-value
\* form quadrant_Calculate(q, pixel).
C26_QuadrantMaxima ==
  (inflight.pc = 0 /\ clientEvents > 0) =>
    LET f == inflight.frame
        xs == mQuadrantData.Xsplit
        ys == mQuadrantData.Ysplit
    IN /\ OnePerPixel[<< xs, ys >>]
       /\ \A i \in 1 .. 4 :
            mQuadrantData[<< "Amax", "Bmax", "Cmax", "Dmax" >>[i]]
              = LargestIn(<< "A", "B", "C", "D" >>[i], f, xs, ys)
       /\ f.hv > f.bg =>
            \A i \in 1 .. 4 :
              (mQuadrantData[<< "Amax", "Bmax", "Cmax", "Dmax" >>[i]] = f.hv)
                <=> InQuadrant(<< "A", "B", "C", "D" >>[i], f.hot[1], f.hot[2], xs, ys)
       /\ mQuadrantData = quadrant_CalculateFrame(inflight.prev, f)
       /\ f.hv = f.bg => mQuadrantData = quadrant_Calculate(inflight.prev, f.bg)

\* A frame whose one maximal pixel lies on the split column, in the row of
\* the split, has been computed: the pixel left of the split at row ySplit
\* is reported by quadrant C alone.
C26_Witness ==
  /\ inflight.pc = 0
  /\ clientEvents > 0
  /\ inflight.frame.bg = WarmPixel
  /\ inflight.frame.hot = << DEFAULT_XSPLIT - 1, DEFAULT_YSPLIT >>
  /\ mQuadrantData.Xsplit = DEFAULT_XSPLIT
  /\ mQuadrantData.Ysplit = DEFAULT_YSPLIT
  /\ mQuadrantData.Cmax = SamplePixel
  /\ mQuadrantData.Amax = WarmPixel

\* The quadrant registers quadrant_WriteRegister has no case for.
ReadOnlyRegs == ComputedRegs

\* C27: a WREG to a read-only quadrant register (a maximum, a centre or a
\* burner temperature) changes no register and no persisted value, and is
\* answered by the empty-payload WREG acknowledgement of an applied write.
C27_ReadOnlyWriteIgnored ==
  [][(ev'.kind = "quadrant_WriteRegister" /\ clientEvents' = clientEvents + 1
        /\ ev'.regAddr \in ReadOnlyRegs)
       => /\ UNCHANGED << mQuadrantData, nvs >>
          /\ ev'.size = 17
          /\ ev'.ack = WregAck]_vars

\* The value 79 has been written to the Dcenter register, after an applied
\* write: the register still reads 0.
C27_Witness ==
  /\ ev.kind = "quadrant_WriteRegister"
  /\ ev.regAddr = REG_XSPLIT + 9
  /\ ev.value = SENXOR_FRAME_WIDTH - 1
  /\ clientEvents = 2
  /\ mQuadrantData.Dcenter = 0
  /\ mQuadrantData.Xsplit = 0
  /\ nvs["xsplit"] = 0
  /\ ev.ack = WregAck

\* The frequency a POLL request carries: the value of its two data digits.
PollValue(req) == toHex(SubSeq(req, 13, 14))

\* C28: the poll frequency signal is at most 25 whatever POLL requests and
\* disconnects have happened, and a POLL that is acknowledged leaves it at
\* the smaller of the value it carries and 25.
C28_PollFreqCapped ==
  /\ pollFreqHz \in 0 .. POLL_MAX_FREQ_HZ
  /\ (ev.kind = "cmdRx" /\ ev.cmd = CMD_POLL /\ ev.size > 0 /\ ~ev.disc)
       => pollFreqHz = Min(PollValue(inflight.sent), POLL_MAX_FREQ_HZ)

\* A POLL carrying FF has been acknowledged after the signal was 5: the signal
\* is 25.
C28_Witness ==
  /\ ev.kind = "cmdRx"
  /\ ev.cmd = CMD_POLL
  /\ ev.size > 0
  /\ ~ev.disc
  /\ PollValue(inflight.sent) = 255
  /\ ev.pollBefore = 5
  /\ pollFreqHz = POLL_MAX_FREQ_HZ

\* C29: a read of a computed register at any point of quadrant_Calculate, in
\* the scan or between two of its stores, returns the value the register had
\* when the call began or the value it has when the call returns, never a
\* running maximum.
C29_ReadSeesWholeValue ==
  (ev.kind = "quadrant_ReadRegister" /\ ev.regAddr \in ComputedRegs) =>
    \E field \in { QuadrantField[ev.regAddr - REG_XSPLIT + 1] } :
      \/ ev.value = inflight.prev[field]
      \/ ev.value = quadrant_CalculateFrame(inflight.prev, inflight.frame)[field]

\* The second frame is being scanned and the running maximum of quadrant A
\* (100) differs from the register: a read of Amax has returned the 4660 of
\* the first frame.
C29_Witness ==
  /\ ev.kind = "quadrant_ReadRegister"
  /\ ev.regAddr = REG_XSPLIT + 2
  /\ clientEvents = 2
  /\ inflight.pc = 1
  /\ inflight.locals.Amax = WarmPixel
  /\ inflight.prev.Amax = SamplePixel
  /\ ev.value = SamplePixel

\* Between the stores of the second frame a read of Dmax has returned the
\* value of the first frame, which the last frame replaces by another.
C29_WitnessBetweenStores ==
  /\ ev.kind = "quadrant_ReadRegister"
  /\ ev.regAddr = REG_XSPLIT + 8
  /\ clientEvents = 2
  /\ inflight.pc = 3
  /\ mQuadrantData.Amax # inflight.prev.Amax
  /\ ev.value = inflight.prev.Dmax
  /\ ev.value # quadrant_CalculateFrame(inflight.prev, inflight.frame).Dmax

\* C30: the frame-connected signal follows the accepted connection: once
\* tcpServerGet has seen the peer's close (read returned 0) the signal is
\* false, and a step that sets the signal is the return of accept with a new
\* client.
C30_FrameSignalFollowsConnection ==
  [][ /\ (recvPc = "read" /\ frameLink = "fin" /\ recvPc' = "post")
           => ~tcpIsClientConnected'
      /\ (recvPc = "post" /\ recvPc' = "read" /\ frameLink # "up")
           => ~tcpIsClientConnected'
      /\ (~tcpIsClientConnected /\ tcpIsClientConnected')
           => (frameLink # "up" /\ frameLink' = "up") ]_vars

\* C31: when a Polling pass of the arbiter ends with pollCaptureStarted set
\* and the last write of 0xB1 was not a client's WREG, 0xB1 holds the start
\* value: no stop of the frame server lands after the arbiter's start.
C31_PollingKeepsCapture ==
  (ev.kind = "arbTick" /\ ev.mode = "Polling" /\ pollCaptureStarted
     /\ b1Write.cause # "WREG")
    => regB1 = B1_START

\* C32: for every request the command server dispatches, the bytes
\* cmdParser_CommitCmd stores lie inside the 64-byte ack buffer and the
\* returned size counts bytes that were stored.
C32_AckInsideBuffer ==
  (ev.kind = "cmdRx" /\ inflight.sent \in RegRequests) =>
    \A c \in { cmdParser_CommitCmd(PharseCmd[inflight.sent].ph,
                                   tcpIsClientConnected) } :
      /\ c.written <= CMD_ACK_LEN
      /\ c.size <= c.written

\* C33: when one read of the command server returns two complete requests,
\* both are dispatched in order and both are answered: after WREG C0 14
\* followed by POLL 05 the split register holds 20, the poll frequency is 5
\* and two 17-byte acknowledgements were sent.
C33_EveryRequestDispatched ==
  (ev.kind = "cmdRx" /\ inflight.sent \in PairedRequests /\ ~ev.disc) =>
    /\ mQuadrantData.Xsplit = 20
    /\ pollFreqHz = 5
    /\ ev.size = 2 * 17

\* ---------------------------------------------------------------------------
\* The frame buffer mSenxorFrameObj between the arbiter and tcpServerTask.
\* inflight numbers the captures: buffer is the capture whose pixels
\* mSenxorFrameObj holds (0 before the first memcpy), queued the capture each
\* queued pointer referred to when it was sent to the queue, sending the one
\* of the pointer tcpServerTask received last.
\* ---------------------------------------------------------------------------
MaxCaptures == 4

InitStream ==
  /\ app_main
  /\ inflight = [captures |-> 0, buffer |-> 0, queued |-> << >>, sending |-> 0]

\* memcpy(mSenxorFrameObj.mFrame, senxorData, sizeof(mSenxorFrameObj.mFrame)):
\* the one static buffer takes the pixels of the new capture.
FrameCopy(buffer, capture) == capture

\* A Streaming pass: with a frame acquired, the memcpy, then xQueueSend of
\* &mSenxorFrameObj without waiting.
StreamCapture ==
  /\ inflight.captures < MaxCaptures
  /\ ArbStreamingPass
  /\ inflight' =
       IF ev'.pushed
       THEN [inflight EXCEPT
               !.captures = @ + 1,
               !.buffer = FrameCopy(@, inflight.captures + 1),
               !.queued = IF senxorFrameQueue' > senxorFrameQueue
                          THEN Append(@, inflight.captures + 1) ELSE @]
       ELSE inflight

\* xQueueReceive(senxorFrameQueue, &senxorDataPtr, portMAX_DELAY).
StreamReceive ==
  /\ PushReceive
  /\ inflight' = [inflight EXCEPT !.queued = Tail(@),
                                  !.sending = Head(inflight.queued)]

\* tcpServerSend((uint8_t*)senxorDataPtr, 80 * 64 * sizeof(uint16_t)).
StreamWrite ==
  /\ PushWrite
  /\ UNCHANGED inflight

NextStream ==
  \/ PushAccept
  \/ FramePeerDrop
  \/ RecvEof
  \/ RecvError
  \/ RecvPost
  \/ RecvAccept
  \/ ArbSample
  \/ StreamCapture
  \/ StreamReceive
  \/ StreamWrite

SpecStream == InitStream /\ [][NextStream]_vars

\* C34: while tcpServerTask holds a frame pointer it has not finished
\* writing, and while a pointer waits in the queue, the buffer holds the
\* capture the pointer was queued for.
C34_FrameNotOverwritten ==
  /\ pushPc = "take" => inflight.buffer = inflight.sending
  /\ \A i \in DOMAIN inflight.queued : inflight.queued[i] = inflight.buffer

\* C35: when accept returns the one new client after a write failure, the
\* frame server is whole again: the channel is marked connected and neither
\* tcpServerTask nor tcpServerRecvTask is left blocked in accept, from which
\* only a further connection could release it.
C35_ServerResumes ==
  [][ (frameLink = "none" /\ frameLink' = "up")
        => /\ tcpIsClientConnected'
           /\ pushPc' # "restart"
           /\ recvPc' \notin { "restart", "ackRestart" } ]_vars

\* C36: every burner coordinate is inside the image, x <= 79 and y <= 61,
\* so that the pixel index y * 80 + x quadrant_Calculate reads for a burner
\* temperature is below 80 * 62.
C36_BurnerInsideImage ==
  \A b \in { "A", "B", "C", "D" } :
    \E x \in { mQuadrantData[b \o "burnerx"] }, y \in { mQuadrantData[b \o "burnery"] } :
      /\ x <= SENXOR_FRAME_WIDTH - 1
      /\ y <= SENXOR_FRAME_HEIGHT - 1
      /\ y * SENXOR_FRAME_WIDTH + x < SENXOR_FRAME_WIDTH * SENXOR_FRAME_HEIGHT

\* Every burner point of q lies in the rectangle of its quadrant under the
\* splits of q.
BurnersInside(q) ==
  \A b \in BurnerCoords :
    /\ q[b[2]] >= BurnerLo(b, q[b[4]])
    /\ q[b[2]] <= BurnerHi(b, q[b[4]])

\* C37: a write of a split register that finds every burner point inside its
\* quadrant leaves every burner point inside its quadrant under the new
\* splits.
C37_SplitWriteKeepsBurners ==
  [][ (ev'.kind = "quadrant_WriteRegister" /\ clientEvents' = clientEvents + 1
         /\ ev'.regAddr \in { REG_XSPLIT, REG_YSPLIT }
         /\ BurnersInside(mQuadrantData))
        => BurnersInside(mQuadrantData') ]_vars

\* ---------------------------------------------------------------------------
\* quadrant_WriteRegister called by the two dispatching tasks: the store to
\* the register, then NVS_WriteU8.  inflight holds, per task, the write it
\* is inside of (addr 0 when it is outside quadrant_WriteRegister).
\* ---------------------------------------------------------------------------
WriterTasks == { "cmdServerTask", "tcpServerRecvTask" }
WriterAddrs == { REG_XSPLIT, REG_XSPLIT + 10 }
WriterValues == { 0, DEFAULT_YSPLIT, SENXOR_FRAME_WIDTH - 1, 255 }
NoWrite == [addr |-> 0, key |-> "", value |-> 0]

\* The store key of a writable register.
KeyOfReg(regAddr) ==
  CHOOSE k \in NvsKeys \cup { "" } :
    \/ regAddr = REG_XSPLIT /\ k = "xsplit"
    \/ regAddr = REG_YSPLIT /\ k = "ysplit"
    \/ \E b \in BurnerCoords : b[1] = regAddr /\ k = b[3]
    \/ regAddr \notin { REG_XSPLIT, REG_YSPLIT } \cup { b[1] : b \in BurnerCoords }
         /\ k = ""

InitWriters ==
  /\ app_main
  /\ inflight = [t \in WriterTasks |-> NoWrite]

\* A task dispatches a WREG and executes the assignment to mQuadrantData;
\* a write the switch ignores returns at once.
WriterStore ==
  /\ clientEvents < MaxQuadWrites
  /\ \E t \in WriterTasks, regAddr \in WriterAddrs, value \in WriterValues :
     \E w \in { quadrant_WriteRegister(mQuadrantData, nvs, regAddr, value) } :
     \E field \in { QuadrantField[regAddr - REG_XSPLIT + 1] } :
       /\ inflight[t] = NoWrite
       /\ mQuadrantData' = w.q
       /\ inflight' =
            [inflight EXCEPT
               ![t] = IF regAddr = REG_XSPLIT
                         /\ ~SplitAccepted(value, SENXOR_FRAME_WIDTH)
                      THEN NoWrite
                      ELSE [addr |-> regAddr, key |-> KeyOfReg(regAddr),
                            value |-> w.q[field]]]
       /\ ev' = [kind |-> "store", task |-> t, regAddr |-> regAddr, value |-> value]
  /\ clientEvents' = clientEvents + 1
  /\ UNCHANGED << nvs, regB1, cmdVars, tcpVars, arbVars, bleVars, b1Write, pollStarts >>

\* NVS_WriteU8(key, value) of the write the task is inside of.
WriterPersist ==
  /\ \E t \in WriterTasks :
       /\ inflight[t] # NoWrite
       /\ nvs' = [nvs EXCEPT ![inflight[t].key] = inflight[t].value]
       /\ inflight' = [inflight EXCEPT ![t] = NoWrite]
       /\ ev' = [kind |-> "persist", task |-> t, regAddr |-> inflight[t].addr,
                 value |-> inflight[t].value]
  /\ UNCHANGED << mQuadrantData, clientEvents, regB1, cmdVars, tcpVars, arbVars,
                  bleVars, b1Write, pollStarts >>

NextWriters == WriterStore \/ WriterPersist
SpecWriters == InitWriters /\ [][NextWriters]_vars

\* C38: no two tasks are inside a write of the same split or burner
\* register at the same time.
C38_OneWriterPerRegister ==
  \A t1 \in WriterTasks, t2 \in WriterTasks :
    (t1 # t2 /\ inflight[t1] # NoWrite /\ inflight[t2] # NoWrite)
      => inflight[t1].addr # inflight[t2].addr

\* Once both tasks have left quadrant_WriteRegister, the stored byte of the
\* register last persisted is the byte the register holds.
C38_StoreMatchesRegister ==
  (ev.kind = "persist" /\ \A t \in WriterTasks : inflight[t] = NoWrite)
    => nvs[KeyOfReg(ev.regAddr)]
         = mQuadrantData[QuadrantField[ev.regAddr - REG_XSPLIT + 1]]

\* C39: handing a frame to the frame server never stalls the capture loop:
\* a Streaming pass can always be taken, the frame queue never holds more
\* than THERMAL_FRAME_BUFFER_NO entries, and a pass that finds the queue
\* full completes with the queue unchanged (the new frame is dropped).
StreamingPassCompletes(q, q2, pc2) ==
  /\ q2 <= THERMAL_FRAME_BUFFER_NO
  /\ q = THERMAL_FRAME_BUFFER_NO => q2 = q
  /\ pc2 = "sample"

C39_CaptureNeverStalled ==
  /\ [](senxorFrameQueue <= THERMAL_FRAME_BUFFER_NO)
  /\ []((arbPc = "act" /\ ModeOf(sampled) = "Streaming")
          => ENABLED ArbStreamingPass)
  /\ [][ArbStreamingPass
          => StreamingPassCompletes(senxorFrameQueue, senxorFrameQueue', arbPc')]_vars

\* Four frames handed over, none taken by the frame server: three are
\* queued and the fourth was dropped.
C39_Witness ==
  /\ ev.kind = "arbTick" /\ ev.mode = "Streaming" /\ ev.pushed
  /\ arbPc = "sample"
  /\ inflight.captures = THERMAL_FRAME_BUFFER_NO + 1
  /\ inflight.sending = 0
  /\ senxorFrameQueue = THERMAL_FRAME_BUFFER_NO
  /\ Len(inflight.queued) = THERMAL_FRAME_BUFFER_NO

\* ---------------------------------------------------------------------------
\* Connection tracking of the broadcast transport with one connection id
\* more than there are client slots.  inflight remembers whether a connect
\* found every slot in use and whether a disconnect named an id no slot
\* holds.
\* ---------------------------------------------------------------------------
GattsConnIds == 0 .. COMBUSTION_MAX_CONNECTIONS

InitConn ==
  /\ app_main
  /\ inflight = [refused |-> FALSE, unknown |-> FALSE]

ConnConnect ==
  /\ \E conn_id \in GattsConnIds :
       /\ SlotsOf(conn_id) = {}
       /\ GattsConnect(conn_id)
       /\ inflight' = [inflight EXCEPT
                         !.refused = @ \/ combustionBle_FindFreeClientSlot < 0]
  /\ ev' = NoEv
  /\ UNCHANGED << sensorVars, cmdVars, tcpVars, arbVars >>
  /\ UNCHANGED << b1Write, pollStarts, clientEvents >>

ConnDisconnect ==
  /\ \E conn_id \in GattsConnIds :
       /\ GattsDisconnect(conn_id)
       /\ inflight' = [inflight EXCEPT
                         !.unknown = @ \/ combustionBle_FindClientByConnId(conn_id) < 0]
  /\ ev' = NoEv
  /\ UNCHANGED << sensorVars, cmdVars, tcpVars, arbVars >>
  /\ UNCHANGED << b1Write, pollStarts, clientEvents >>

NextConn == ConnConnect \/ ConnDisconnect
SpecConn == InitConn /\ [][NextConn]_vars

ActiveSlots == { i \in 1 .. COMBUSTION_MAX_CONNECTIONS : clients[i] # Inactive }

\* C40: after any connect and disconnect events the count the arbiter reads
\* is the number of active client slots, between 0 and
\* COMBUSTION_MAX_CONNECTIONS.
C40_CountMatchesSlots ==
  /\ combustionBle_GetConnectionCount = Cardinality(ActiveSlots)
  /\ combustionBle_GetConnectionCount \in 0 .. COMBUSTION_MAX_CONNECTIONS

\* Every slot in use after a connect was refused for want of a slot and a
\* disconnect named an unknown connection id.
C40_Witness ==
  /\ inflight.refused
  /\ inflight.unknown
  /\ connected_count = COMBUSTION_MAX_CONNECTIONS
  /\ FreeSlots = {}

====
